---- MODULE Spec2Model ----
(***************************************************************************)
(* The PDF manipulation worker of src/lambda/pdf-processor: main.py's      *)
(* lambda_handler, the ManipulationOrchestrator and its four stage         *)
(* processors, over the metadata store (utils/db_manager.py) and the       *)
(* object store (utils/s3_manager.py).                                     *)
(*                                                                         *)
(* One source document (Image row SourceId) is processed by a bounded      *)
(* number of consecutive invocations.  Every DatabaseManager write opens   *)
(* its own connection and commits, so each write is visible to other       *)
(* readers as soon as its step is taken.                                   *)
(*                                                                         *)
(* Spec has the scheduler's well-formed payloads; SpecAnyPayload has any   *)
(* payload (fields missing, unrouted operation, no session, short budget). *)
(* SpecSplitDocument is the handler of lambda_function.py, which serves    *)
(* the split_document operation; SpecApiRequest is one request of          *)
(* api_callbacks.py with its retries.                                      *)
(***************************************************************************)
EXTENDS Integers, Sequences, FiniteSets, TLC

\* ---------------------------------------------------------------- bounds
MaxPages == 2
MaxInvocations == 2
MaxFaults == 1
\* the page-edit stages taken alone (SpecStages)
MaxStagePages == 3
MaxStageRows == 3
\* the split-range computations taken alone (SpecSplitRanges)
MaxRangePages == 3
MaxBookmarks == 3
\* the API request taken alone (SpecApiRequest): API_RETRY_ATTEMPTS from 0
\* up to the default of api_callbacks.get_api_config
MaxRetryAttempts == 3

\* ------------------------------------------------------- program constants
SourceId == 1

status_mapping ==
  [Sync |-> 1, NeedsProcessing |-> 3, NeedsImageManipulation |-> 7,
   PendingWorkman |-> 8, InWorkman |-> 9, Obsolete |-> 15]

ValidAngles == {0, 90, 180, 270}

VARIABLES
  \* metadata store
  img,            \* the source Image row
  derived,        \* Image rows inserted by create_split_image, in id order
  redactions,     \* ImageRedaction rows of the source, by ID
  rotations,      \* ImageRotation rows of the source, by ID
  deletions,      \* ImagePageDeletion rows of the source, by ID
  bookmarks,      \* ImageBookmark rows of the source, by ID
  splitLog,       \* ImageSplitLog rows
  \* object store: key <<stage, id>> -> PDF
  s3,
  \* the invocation
  pc, operation, s3_manager, image_record, manipulations,
  pdf_bytes, modified_pdf, result, split_ranges, split_i, response,
  image_id,        \* event['imageId'], 0 when the payload has none
  session_id,      \* event['sessionId'], "" when the payload has none
  timeout_seconds, \* event['timeout']
  elapsed,         \* time.time() - start_time
  exc,             \* the exception on its way to lambda_handler's except
  invoker,         \* who sends the payloads: "scheduler" or "any"
  api,             \* the API request a callback of api_callbacks.py is making
  \* history
  progress,       \* progress updates this invocation has sent
  startStores,    \* rows and objects when the invocation began
  stageLog,       \* stages run by this invocation: stage, input, output
  puts,           \* object-store puts issued by this invocation
  startStatus,    \* ImageStatusTypeID when the invocation began
  snapshot,       \* stores as the last successful invocation left them
  invocations, faults

dbvars == <<img, derived, redactions, rotations, deletions, bookmarks, splitLog>>
locals == <<operation, image_record, manipulations, pdf_bytes, modified_pdf,
            result, split_ranges, split_i>>
vars == <<img, derived, redactions, rotations, deletions, bookmarks, splitLog,
          s3, pc, operation, s3_manager, image_record, manipulations,
          pdf_bytes, modified_pdf, result, split_ranges, split_i, response,
          stageLog, puts, startStatus, snapshot, invocations, faults,
          image_id, session_id, timeout_seconds, elapsed, exc, progress,
          startStores, invoker, api>>
event == <<image_id, session_id, timeout_seconds, invoker, api>>

\* ------------------------------------------------------------ PDF engine
\* A PDF is its sequence of pages.  A page remembers which page of the
\* ingested document it is, its absolute rotation, the redactions applied
\* to it and whether it has been rasterized.
Page(i) == [orig |-> i, rot |-> 0, red |-> {}, raster |-> FALSE]
NewPdf(n) == [i \in 1..n |-> Page(i - 1)]

Max(S) == CHOOSE x \in S : \A y \in S : y <= x
Min(S) == CHOOSE x \in S : \A y \in S : x <= y
MinOf(a, b) == IF a < b THEN a ELSE b
MaxOf(a, b) == IF a > b THEN a ELSE b

Reverse(s) == [i \in 1..Len(s) |-> s[Len(s) + 1 - i]]

\* ----------------------------------------------------------- row helpers
\* ORDER BY PageIndex (ties by ID) of the rows of table t whose ID is in ids.
RECURSIVE OrderBy(_, _, _)
OrderBy(t, ids, col) ==
  IF ids = {} THEN <<>>
  ELSE LET k == CHOOSE a \in ids : \A b \in ids :
                   \/ t[a][col] < t[b][col]
                   \/ (t[a][col] = t[b][col] /\ a <= b)
       IN  <<t[k]>> \o OrderBy(t, ids \ {k}, col)

Range(s) == {s[i] : i \in 1..Len(s)}

Outcomes == IF faults < MaxFaults THEN {TRUE, FALSE} ELSE {TRUE}
Charge(ok) == IF ok THEN faults ELSE faults + 1

\* DatabaseManager.update_image_status: UPDATE Image SET ImageStatusTypeID
\* WHERE ID = image_id; a database error is logged and False is returned.
update_image_status(row, status, ok) ==
  IF ok /\ status \in DOMAIN status_mapping
  THEN [row EXCEPT !.ImageStatusTypeID = status_mapping[status]]
  ELSE row

\* DatabaseManager.update_page_count
update_page_count(row, n, ok) ==
  IF ok THEN [row EXCEPT !.PageCount = n] ELSE row

\* DatabaseManager.mark_image_deleted
mark_image_deleted(row, ok) ==
  IF ok THEN [row EXCEPT !.Deleted = TRUE] ELSE row

\* S3Manager.upload_file: put_object, True; any error is logged, False.
upload_file(store, key, body, ok) ==
  IF ok THEN [k \in DOMAIN store \cup {key} |->
                IF k = key THEN body ELSE store[k]]
  ELSE store

ProcessingKey(id) == <<"Processing", id>>
BackupKey(id) == <<"RedactOriginal", id>>

\* The result dictionaries of the stages before they ran.
EmptyRedactionResult ==
  [pagesModified |-> {}, rasterizedPages |-> {}, appliedRedactions |-> {}]
EmptyRotationResult == [pagesRotated |-> <<>>, skippedRotations |-> <<>>]
EmptyDeletionResult == [deletedPages |-> <<>>, skippedDeletions |-> <<>>]

EmptyResult ==
  [operationsApplied |-> <<>>, finalPageCount |-> 0, splitImages |-> <<>>,
   documentDeleted |-> FALSE, splitStrategy |-> "",
   redactionResult |-> EmptyRedactionResult,
   rotationResult |-> EmptyRotationResult,
   deletionResult |-> EmptyDeletionResult]
EmptyManipulations ==
  [redactions |-> <<>>, rotations |-> <<>>, deletions |-> <<>>, pageBreaks |-> <<>>]
NoRecord == [PageCount |-> 0, DocTypeManualID |-> 0, DocumentDate |-> 0,
             Comments |-> ""]
NoSnapshot == [taken |-> FALSE]

\* ------------------------------------------------- exceptions, responses
ValueError(msg) == [type |-> "ValueError", msg |-> msg]
TypeError(msg) == [type |-> "TypeError", msg |-> msg]
TimeoutError(msg) == [type |-> "TimeoutError", msg |-> msg]
Exception(msg) == [type |-> "Exception", msg |-> msg]
NoException == [type |-> "", msg |-> ""]

NoError == [text |-> "", imageId |-> 0, cause |-> ""]
NoResponse == [statusCode |-> 0, success |-> FALSE, error |-> NoError]

\* main.py lines 101-110
SuccessResponse == [statusCode |-> 200, success |-> TRUE, error |-> NoError]

error_msg_without_cause(id, e) ==
  [text |-> "Lambda processing failed for image", imageId |-> id, cause |-> ""]

\* main.py line 114: f"Lambda processing failed for image {image_id}: {str(e)}"
error_msg(id, e) ==
  [text |-> "Lambda processing failed for image", imageId |-> id, cause |-> e.msg]

\* main.py lines 125-135
ErrorResponse(id, e) ==
  [statusCode |-> 500, success |-> FALSE, error |-> error_msg(id, e)]

\* ------------------------------------------------------ progress tracker
\* ProgressTracker.__init__: the callback URL and the enable flag come from
\* the environment, which here has both set.
callback_url == "https://api/progress"
enabled == TRUE

\* ProgressTracker.update_progress, line 48: nothing is sent without a
\* session id, a callback URL or with callbacks disabled.
sends(session) == enabled /\ session # "" /\ callback_url # ""

\* ProgressTracker.update_progress run to completion by await_safe.
\* rowStatus is the source's status code when the update is sent, outcome
\* what became of the POST: "ok" (200), "timeout", "non200", "exception".
update_progress(log, session, status, percent, rowStatus, outcome) ==
  IF ~sends(session) THEN log
  ELSE Append(log, [status |-> status, progress |-> percent,
                    rowStatus |-> rowStatus, outcome |-> outcome])

\* The outcomes of a POST: the scheduler's and any invoker's runs have a
\* callback endpoint that answers; the "callbacks" runs have one that may
\* time out, answer another status or break the connection.
Deliveries(who) ==
  IF who = "callbacks" THEN {"ok", "timeout", "non200", "exception"}
  ELSE {"ok"}

await_safe_reraising(outcome) ==
  IF outcome = "ok" THEN "returned" ELSE "raised"

\* main.py await_safe around update_progress: the tracker turns a timeout,
\* a non-200 answer and any exception into a False return value
\* (progress_tracker.py lines 83-93) and await_safe turns whatever is still
\* raised into None (lines 171-173): the caller always gets a value back.
await_safe(outcome) == "returned"

\* No api_callbacks request under way.
NoRequest == [state |-> "none", configured |-> TRUE, retry_attempts |-> 0,
              retry_count |-> 0, log |-> <<>>, updated |-> FALSE,
              status_update |-> FALSE]

\* What one requests.request of make_api_request can come to: a status
\* code, requests.exceptions.Timeout, or another RequestException.
HttpOutcomes == {"200", "201", "204", "400", "404", "500", "502", "503", "504",
                 "Timeout", "RequestException"}

retry_any_failure(outcome, retry_count, retry_attempts) ==
  outcome \notin {"200", "201", "204"} /\ retry_count < retry_attempts

\* make_api_request, lines 108-110, 118-120 and 128-130: the attempt is
\* repeated with retry_count + 1.
retry(outcome, retry_count, retry_attempts) ==
  /\ outcome \in {"500", "502", "503", "504", "Timeout", "RequestException"}
  /\ retry_count < retry_attempts

\* api_callbacks.update_processing_status, the synchronous counterpart
\* used by the split_document entry point: True when make_api_request
\* returned, False when it raised.
update_processing_status(outcome) == outcome = "ok"

\* ------------------------------------------------------------- the clock
\* main.py line 46: the default of event['timeout'].
DefaultTimeout == 840
\* Orchestrator line 117: the buffer kept before the timeout.
SafetyMargin == 60

\* Orchestrator line 117
timeout_approaching(t, limit) == t > limit - SafetyMargin

\* ------------------------------------------------------------------ Init
\* The edit rows recorded by the upstream UI: row k of each table is on
\* page k - 1, so on a short document some rows are out of range.  A date
\* of 0 and comments of "" are the absent (NULL) values: the source has a
\* date and no comments, break 1 comments and no date, break 2 a date and
\* no comments.
InitWith(who, redIds, rotIds, delIds, breakIds) ==
  /\ invoker = who
  /\ \E n \in 1..MaxPages, st \in {"NeedsImageManipulation", "InWorkman"} :
       /\ img = [ImageStatusTypeID |-> status_mapping[st], Deleted |-> FALSE,
                 PageCount |-> n, DocTypeManualID |-> 5,
                 DocumentDate |-> 10, Comments |-> ""]
       /\ s3 = (ProcessingKey(SourceId) :> NewPdf(n))
  /\ derived = <<>>
  /\ \E ids \in redIds :
       redactions = [k \in ids |-> [ID |-> k, PageNumber |-> k - 1, Applied |-> FALSE]]
  /\ \E ids \in rotIds :
       rotations = [k \in ids |-> [ID |-> k, PageIndex |-> k - 1, Rotate |-> 90]]
  /\ \E ids \in delIds :
       deletions = [k \in ids |-> [ID |-> k, PageIndex |-> k - 1, Processed |-> FALSE]]
  /\ \E ids \in breakIds :
       bookmarks = [k \in ids |-> [ID |-> k, PageIndex |-> k - 1,
                                   ImageDocumentTypeID |-> 6 + k,
                                   DocumentDate |-> IF k = 1 THEN 0 ELSE 10 + k,
                                   Comments |-> IF k = 1 THEN "c1" ELSE "",
                                   ResultImageID |-> 0, Deleted |-> FALSE]]
  /\ splitLog = <<>>
  /\ s3_manager \in {"S3Manager", "KeyAndPrefix"}
  /\ pc = "idle"
  /\ operation = ""
  /\ image_record = NoRecord
  /\ manipulations = EmptyManipulations
  /\ pdf_bytes = <<>>
  /\ modified_pdf = <<>>
  /\ result = EmptyResult
  /\ split_ranges = <<>>
  /\ split_i = 0
  /\ response = NoResponse
  /\ image_id = 0
  /\ session_id = ""
  /\ timeout_seconds = DefaultTimeout
  /\ elapsed = 0
  /\ exc = NoException
  /\ progress = <<>>
  /\ startStores = NoSnapshot
  /\ stageLog = <<>>
  /\ puts = <<>>
  /\ startStatus = 0
  /\ snapshot = NoSnapshot
  /\ invocations = 0
  /\ faults = 0

\* The platform's scheduler invokes the worker: well-formed payloads.
Init == InitWith("scheduler", SUBSET {1, 2}, SUBSET {1}, SUBSET {1, 2}, SUBSET {1, 2}) /\ api = NoRequest

\* Any invoker, any payload, on documents with at most one row per table.
InitAnyPayload == InitWith("any", SUBSET {1}, SUBSET {1}, SUBSET {1}, {{}, {2}}) /\ api = NoRequest

\* --------------------------------------------------------------- actions
Stores(i) ==
  [taken |-> TRUE, inv |-> invocations, img |-> i, derived |-> derived, redactions |-> redactions,
   rotations |-> rotations, deletions |-> deletions, bookmarks |-> bookmarks,
   splitLog |-> splitLog, s3 |-> s3]

\* The payloads of the scheduler.
SchedulerEvents ==
  [operation : {"process_manipulations", "health_check"}, imageId : {SourceId},
   sessionId : {"session"}, timeout : {DefaultTimeout}]

\* The payloads of any invoker: operation and imageId may be missing (""
\* and 0), the operation may be one lambda_handler does not route,
\* sessionId is optional, timeout is the default or a budget shorter than
\* the safety margin.
AnyEvents ==
  [operation : {"process_manipulations", "health_check", "unknown_operation", ""},
   imageId : {SourceId, 0}, sessionId : {"", "session"},
   timeout : {DefaultTimeout, 1}]

Events(who) == IF who = "any" THEN AnyEvents ELSE SchedulerEvents

\* main.py lambda_handler, lines 38-67: a new invocation.  A payload
\* without imageId or without operation raises ValueError at once.
Invoke ==
  /\ pc \in {"idle", "done"}
  /\ invocations < MaxInvocations
  /\ invocations' = invocations + 1
  /\ \E e \in Events(invoker) :
       /\ operation' = e.operation
       /\ image_id' = e.imageId
       /\ session_id' = e.sessionId
       /\ timeout_seconds' = e.timeout
  /\ UNCHANGED <<invoker, api>>
  /\ elapsed' = 0
  /\ progress' = <<>>
  /\ startStores' = Stores(img)
  /\ exc' = IF image_id' = 0 THEN ValueError("imageId is required")
            ELSE IF operation' = "" THEN ValueError("operation is required")
            ELSE NoException
  /\ startStatus' = img.ImageStatusTypeID
  /\ image_record' = NoRecord
  /\ manipulations' = EmptyManipulations
  /\ pdf_bytes' = <<>>
  /\ modified_pdf' = <<>>
  /\ result' = EmptyResult
  /\ split_ranges' = <<>>
  /\ split_i' = 0
  /\ response' = NoResponse
  /\ stageLog' = <<>>
  /\ puts' = <<>>
  /\ pc' = IF image_id' = 0 \/ operation' = "" THEN "error" ELSE "set_inworkman"
  /\ UNCHANGED <<dbvars, s3, s3_manager, snapshot, faults>>

\* main.py lines 69-89: the first progress update, the status write, then
\* the routing of the operation.  An exception out of line 70 would be
\* caught at line 112 before the status write.
SetInWorkmanUpdate(before, o) ==
  update_progress(before, session_id, "processing", 10, img.ImageStatusTypeID, o)

SetInWorkmanPipeline(o) ==
  /\ pc = "set_inworkman"
  /\ IF sends(session_id) /\ await_safe(o) = "raised"
     THEN /\ pc' = "error"
          /\ exc' = Exception("progress update failed")
          /\ UNCHANGED <<img, faults>>
     ELSE /\ \E ok \in Outcomes :
               /\ img' = update_image_status(img, "InWorkman", ok)
               /\ faults' = Charge(ok)
          /\ pc' = IF operation = "process_manipulations" THEN "load"
                   ELSE IF operation = "health_check" THEN "health" ELSE "error"
          /\ exc' = IF pc' = "error" THEN ValueError("Unknown operation") ELSE exc
  /\ UNCHANGED <<event, elapsed, startStores>>
  /\ UNCHANGED <<derived, redactions, rotations, deletions, bookmarks, splitLog,
                 s3, s3_manager, locals, response, stageLog, puts, startStatus,
                 snapshot, invocations>>

SetInWorkman ==
  \E o \in Deliveries(invoker) :
    /\ SetInWorkmanPipeline(o)
    /\ progress' = SetInWorkmanUpdate(progress, o)

PendingRedactions_unfiltered ==
  OrderBy(redactions, DOMAIN redactions, "PageNumber")

\* ManipulationOrchestrator.process_document_manipulations, lines 46-69.
\* get_image_record selects WHERE ID = %s AND Deleted = 0 and returns None
\* on a database error as well; get_pending_redactions keeps Applied = 0
\* rows, get_rotations and get_page_deletions keep every row of the image,
\* get_page_breaks keeps Deleted = 0 rows.
PendingRedactions ==
  OrderBy(redactions, {k \in DOMAIN redactions : ~redactions[k].Applied}, "PageNumber")
LoadedRotations == OrderBy(rotations, DOMAIN rotations, "PageIndex")
LoadedDeletions == OrderBy(deletions, DOMAIN deletions, "PageIndex")
LoadedPageBreaks ==
  OrderBy(bookmarks, {k \in DOMAIN bookmarks : ~bookmarks[k].Deleted}, "PageIndex")

Load ==
  /\ pc = "load"
  /\ \E ok \in Outcomes :
       /\ faults' = Charge(ok)
       /\ IF img.Deleted \/ ~ok
          THEN /\ pc' = "error"
               /\ UNCHANGED <<image_record, manipulations>>
          ELSE /\ image_record' = [PageCount |-> img.PageCount,
                                   DocTypeManualID |-> img.DocTypeManualID,
                                   DocumentDate |-> img.DocumentDate,
                                   Comments |-> img.Comments]
               /\ manipulations' =
                    [redactions |-> PendingRedactions,
                     rotations |-> LoadedRotations,
                     deletions |-> LoadedDeletions,
                     pageBreaks |-> LoadedPageBreaks]
               /\ pc' = IF Len(PendingRedactions) + Len(LoadedRotations)
                           + Len(LoadedDeletions) + Len(LoadedPageBreaks) = 0
                        THEN "mark_complete" ELSE "download"
  /\ UNCHANGED <<dbvars, s3, s3_manager, operation, pdf_bytes, modified_pdf,
                 result, split_ranges, split_i, response, stageLog, puts,
                 startStatus, snapshot, invocations>>
  /\ exc' = IF pc' = "error" THEN ValueError("Image record not found") ELSE exc
  /\ UNCHANGED <<event, elapsed, progress, startStores>>

\* Lines 74-78.  The orchestrator calls download_file(key, bucket_prefix) on
\* the s3_manager it was constructed with (line 25).  utils.S3Manager
\* declares download_file(self, s3_key), so with it the call raises
\* TypeError; with an adapter that takes the key and the prefix the object
\* is returned, or None when it is missing or the request fails.
Download ==
  /\ pc = "download"
  /\ \E ok \in Outcomes :
       /\ faults' = IF s3_manager = "S3Manager" THEN faults ELSE Charge(ok)
       /\ IF s3_manager = "S3Manager" \/ ~ok
             \/ ProcessingKey(SourceId) \notin DOMAIN s3
             \/ (s3_manager # "S3Manager" /\ ok /\ s3[ProcessingKey(SourceId)] = <<>>)
          THEN /\ pc' = "error"
               /\ UNCHANGED pdf_bytes
          ELSE /\ pdf_bytes' = s3[ProcessingKey(SourceId)]
               /\ pc' = "backup"
  /\ UNCHANGED <<dbvars, s3, s3_manager, operation, image_record, manipulations,
                 modified_pdf, result, split_ranges, split_i, response,
                 stageLog, puts, startStatus, snapshot, invocations>>
  /\ exc' = IF pc' # "error" THEN exc
            ELSE IF s3_manager = "S3Manager"
                 THEN TypeError("download_file() takes 2 positional arguments but 3 were given")
                 ELSE ValueError("Could not download PDF from S3")
  /\ UNCHANGED <<event, elapsed, progress, startStores>>

has_file_manipulations_any_edit(m) ==
  m.redactions # <<>> \/ m.rotations # <<>> \/ m.deletions # <<>>
  \/ m.pageBreaks # <<>>

\* Lines 90-92
has_file_manipulations(m) ==
  m.redactions # <<>> \/ m.rotations # <<>> \/ m.deletions # <<>>

\* Lines 94-101: the backup put (its result is not looked at), then
\* modified_pdf = pdf_bytes.
Backup ==
  /\ pc = "backup"
  /\ IF has_file_manipulations(manipulations)
     THEN \E ok \in Outcomes :
            /\ faults' = Charge(ok)
            /\ s3' = upload_file(s3, BackupKey(SourceId),
                                 pdf_bytes, ok)
            /\ puts' = Append(puts, [key |-> BackupKey(SourceId),
                                     body |-> pdf_bytes,
                                     ok |-> ok, after |-> Len(stageLog)])
     ELSE UNCHANGED <<s3, puts, faults>>
  /\ modified_pdf' = pdf_bytes
  /\ pc' = "redact"
  /\ UNCHANGED <<dbvars, s3_manager, operation, image_record, manipulations,
                 pdf_bytes, result, split_ranges, split_i, response, stageLog,
                 startStatus, snapshot, invocations>>
  /\ UNCHANGED <<event, elapsed, exc, progress, startStores>>

StageInputIsFetched(fetched, current) == fetched

\* The buffer the orchestrator hands to a stage (lines 109-111, 126-128,
\* 139-141, 153-155).
StageInput(fetched, current) == current

\* RedactionProcessor.process, lines 63-80: the redactions that get onto
\* their page.  A page number past the end is skipped (line 64); a
\* redaction whose _apply_single_redaction raises is logged and passed over.
AppliedRedactions(doc, reds, failedApply) ==
  {r \in Range(reds) : r.PageNumber < Len(doc) /\ r.ID # failedApply}

\* RedactionProcessor.process, lines 52-93: redactions grouped by page;
\* every page with an applied redaction has its redactions applied and is
\* then rasterized, unless _rasterize_page fails, which it reports by
\* returning False (lines 240-242).
RedactPdf(doc, reds, failedApply, failedRaster) ==
  [i \in 1..Len(doc) |->
     LET onPage == {r \in AppliedRedactions(doc, reds, failedApply) :
                      r.PageNumber = i - 1}
     IN  IF onPage = {} THEN doc[i]
         ELSE [doc[i] EXCEPT !.red = @ \cup {r.ID : r \in onPage},
                             !.raster = (i - 1 # failedRaster)]]

\* The result dictionary of RedactionProcessor.process (lines 43-49, 77,
\* 85, 91).
RedactionResult(doc, reds, failedApply, failedRaster) ==
  LET applied == AppliedRedactions(doc, reds, failedApply)
      pages == {r.PageNumber : r \in applied}
  IN  [pagesModified |-> pages,
       rasterizedPages |-> pages \ {failedRaster},
       appliedRedactions |-> {r.ID : r \in applied}]

MarkRedactionsApplied_stops_at_failure(t, reds, bad) ==
  [k \in DOMAIN t |->
     IF \E i \in 1..Len(reds) :
          /\ reds[i].ID = k
          /\ \A j \in 1..i : reds[j].ID # bad
     THEN [t[k] EXCEPT !.Applied = TRUE] ELSE t[k]]

\* RedactionProcessor.process, lines 95-100: every row handed to the stage
\* is marked applied, each in its own commit; a failed mark returns False.
MarkRedactionsApplied(t, reds, bad) ==
  [k \in DOMAIN t |->
     IF k \in {r.ID : r \in Range(reds)} /\ k # bad
     THEN [t[k] EXCEPT !.Applied = TRUE] ELSE t[k]]

FailedMark(ids) == IF faults < MaxFaults THEN ids \cup {0} ELSE {0}

\* What can go wrong inside one run of the redaction stage without ending
\* it: the mark of one row, the application of one redaction, or the
\* rasterization of one page.
NoFault == [kind |-> "none", id |-> 0]
RedactFaults(doc, reds) ==
  {NoFault} \cup
  (IF faults < MaxFaults
   THEN {[kind |-> "mark", id |-> r.ID] : r \in Range(reds)}
        \cup {[kind |-> "apply", id |-> r.ID] :
                r \in AppliedRedactions(doc, reds, 0)}
        \cup {[kind |-> "raster", id |-> r.PageNumber] :
                r \in AppliedRedactions(doc, reds, 0)}
   ELSE {})

\* Orchestrator lines 104-114
Redact ==
  /\ pc = "redact"
  /\ IF manipulations.redactions # <<>>
     THEN LET inp == StageInput(pdf_bytes, modified_pdf)
              reds == manipulations.redactions
          IN  \E f \in RedactFaults(inp, reds) :
                LET bad == IF f.kind = "mark" THEN f.id ELSE 0
                    failedApply == IF f.kind = "apply" THEN f.id ELSE 0
                    failedRaster == IF f.kind = "raster" THEN f.id ELSE -1
                    out == RedactPdf(inp, reds, failedApply, failedRaster)
                IN  /\ faults' = Charge(f = NoFault)
                    /\ redactions' = MarkRedactionsApplied(redactions, reds, bad)
                    /\ modified_pdf' = out
                    /\ result' = [result EXCEPT
                                    !.operationsApplied = Append(@, "redactions"),
                                    !.redactionResult =
                                       RedactionResult(inp, reds, failedApply,
                                                       failedRaster)]
                    /\ stageLog' = Append(stageLog,
                                    [stage |-> "redactions", inp |-> inp, out |-> out])
     ELSE UNCHANGED <<redactions, modified_pdf, result, stageLog, faults>>
  /\ pc' = "check_timeout"
  /\ UNCHANGED <<img, derived, rotations, deletions, bookmarks, splitLog, s3,
                 s3_manager, operation, image_record, manipulations, pdf_bytes,
                 split_ranges, split_i, response, puts, startStatus, snapshot,
                 invocations>>
  /\ UNCHANGED <<event, elapsed, exc, progress, startStores>>

\* The clock: the run takes long enough to use up the budget.
Tick ==
  /\ pc \notin {"idle", "done"}
  /\ ~timeout_approaching(elapsed, timeout_seconds)
  /\ faults < MaxFaults
  /\ faults' = faults + 1
  /\ elapsed' = timeout_seconds
  /\ UNCHANGED <<dbvars, s3, s3_manager, pc, locals, response, stageLog, puts,
                 startStatus, snapshot, invocations, event, exc, progress,
                 startStores>>

\* Lines 116-118: the only check of the elapsed time.
CheckTimeout ==
  /\ pc = "check_timeout"
  /\ pc' = IF timeout_approaching(elapsed, timeout_seconds) THEN "error"
           ELSE "rotate"
  /\ UNCHANGED <<dbvars, s3, s3_manager, locals, response, stageLog, puts,
                 startStatus, snapshot, invocations, faults>>
  /\ exc' = IF pc' = "error" THEN TimeoutError("Processing timeout approaching") ELSE exc
  /\ UNCHANGED <<event, elapsed, progress, startStores>>

\* RotationProcessor._validate_rotation
ValidRotation(r, n) ==
  r.PageIndex >= 0 /\ r.PageIndex < n /\ r.Rotate \in ValidAngles

\* RotationProcessor.process, lines 51-92: set_rotation is absolute.
RECURSIVE ApplyRotations(_, _)
ApplyRotations(doc, rots) ==
  IF rots = <<>> THEN doc
  ELSE ApplyRotations(
         [doc EXCEPT ![Head(rots).PageIndex + 1].rot = Head(rots).Rotate],
         Tail(rots))

RotatePdf_first_wins(doc, rots) ==
  ApplyRotations(doc, Reverse(SelectSeq(rots, LAMBDA r : ValidRotation(r, Len(doc)))))

\* Lines 52-92: the valid rows, applied in input order.
RotatePdf(doc, rots) ==
  ApplyRotations(doc, SelectSeq(rots, LAMBDA r : ValidRotation(r, Len(doc))))

\* The result dictionary of RotationProcessor.process: one pagesRotated
\* entry per valid row (lines 74-91), one skippedRotations entry, with its
\* reason, per row that failed the validation (lines 57-60).
RotationResult(doc, rots) ==
  LET valid == SelectSeq(rots, LAMBDA r : ValidRotation(r, Len(doc)))
      invalid == SelectSeq(rots, LAMBDA r : ~ValidRotation(r, Len(doc)))
  IN  [pagesRotated |->
         [i \in 1..Len(valid) |->
            [pageIndex |-> valid[i].PageIndex, rotation |-> valid[i].Rotate]],
       skippedRotations |->
         [i \in 1..Len(invalid) |->
            [rotation |-> invalid[i],
             reason |-> "Invalid rotation data or page index"]]]

\* Orchestrator lines 120-131
Rotate ==
  /\ pc = "rotate"
  /\ IF manipulations.rotations # <<>>
     THEN LET inp == StageInput(pdf_bytes, modified_pdf)
              out == RotatePdf(inp, manipulations.rotations)
          IN  /\ modified_pdf' = out
              /\ result' = [result EXCEPT
                              !.operationsApplied = Append(@, "rotations"),
                              !.rotationResult =
                                 RotationResult(inp, manipulations.rotations)]
              /\ stageLog' = Append(stageLog,
                              [stage |-> "rotations", inp |-> inp, out |-> out])
     ELSE UNCHANGED <<modified_pdf, result, stageLog>>
  /\ pc' = "delete"
  /\ UNCHANGED <<dbvars, s3, s3_manager, operation, image_record, manipulations,
                 pdf_bytes, split_ranges, split_i, response, puts, startStatus,
                 snapshot, invocations, faults>>
  /\ UNCHANGED <<event, elapsed, exc, progress, startStores>>

\* DeletionProcessor._validate_page_deletion
ValidDeletion(d, n) == d.PageIndex >= 0 /\ d.PageIndex < n

\* DeletionProcessor.process, lines 53-71: the valid page indices, without
\* duplicates, highest first.
PagesToDelete(dels, n) ==
  {d.PageIndex : d \in {x \in Range(dels) : ValidDeletion(x, n)}}

RECURSIVE SortedDescending(_)
SortedDescending(S) ==
  IF S = {} THEN <<>>
  ELSE <<Max(S)>> \o SortedDescending(S \ {Max(S)})

DeletionOrder_ascending(pages) == Reverse(SortedDescending(pages))

\* Line 71: sorted(list(set(pages_to_delete)), reverse=True)
DeletionOrder(pages) == SortedDescending(pages)

\* fitz delete_page(k), k zero-based
DeletePage(doc, k) == SubSeq(doc, 1, k) \o SubSeq(doc, k + 2, Len(doc))

\* Lines 100-108
RECURSIVE DeletePages(_, _)
DeletePages(doc, pages) ==
  IF pages = <<>> THEN doc
  ELSE DeletePages(IF Head(pages) < Len(doc) THEN DeletePage(doc, Head(pages))
                   ELSE doc,
                   Tail(pages))

\* Lines 119-127: mark_page_deletion_processed for the rows whose page was
\* deleted.
MarkDeletionsProcessed(t, dels, pages) ==
  [k \in DOMAIN t |->
     IF k \in {d.ID : d \in {x \in Range(dels) : x.PageIndex \in pages}}
     THEN [t[k] EXCEPT !.Processed = TRUE] ELSE t[k]]

\* The result dictionary of DeletionProcessor.process: one deletedPages
\* entry per valid row (lines 58-63), one skippedDeletions entry, with its
\* reason, per row that failed the validation (lines 65-68).
DeletionResult(doc, dels) ==
  LET valid == SelectSeq(dels, LAMBDA d : ValidDeletion(d, Len(doc)))
      invalid == SelectSeq(dels, LAMBDA d : ~ValidDeletion(d, Len(doc)))
  IN  [deletedPages |->
         [i \in 1..Len(valid) |->
            [pageIndex |-> valid[i].PageIndex, deletionId |-> valid[i].ID]],
       skippedDeletions |->
         [i \in 1..Len(invalid) |->
            [deletion |-> invalid[i],
             reason |-> "Invalid page index or deletion data"]]]

\* Lines 75-76: every page is to be deleted.
DeletesAllPages(pages, n) == Cardinality(pages) >= n

\* Orchestrator lines 133-145 with DeletionProcessor.process
Delete ==
  /\ pc = "delete"
  /\ IF manipulations.deletions # <<>>
     THEN LET inp == StageInput(pdf_bytes, modified_pdf)
              n == Len(inp)
              pages == PagesToDelete(manipulations.deletions, n)
              out == IF DeletesAllPages(pages, n) THEN inp
                     ELSE DeletePages(inp, DeletionOrder(pages))
              final == IF DeletesAllPages(pages, n) THEN 0 ELSE Len(out)
          IN  /\ \E ok \in Outcomes :
                   /\ faults' = IF DeletesAllPages(pages, n) \/ final # n
                                THEN Charge(ok) ELSE faults
                   /\ img' = IF DeletesAllPages(pages, n)
                             THEN mark_image_deleted(img, ok)
                             ELSE IF final # n
                                  THEN update_page_count(img, final, ok)
                                  ELSE img
              /\ deletions' = IF DeletesAllPages(pages, n) \/ pages = {}
                              THEN deletions
                              ELSE MarkDeletionsProcessed(deletions,
                                     manipulations.deletions, pages)
              /\ modified_pdf' = out
              /\ result' = [result EXCEPT
                              !.operationsApplied = Append(@, "deletions"),
                              !.finalPageCount = final,
                              !.deletionResult =
                                 DeletionResult(inp, manipulations.deletions),
                              !.documentDeleted = DeletesAllPages(pages, n)]
              /\ stageLog' = Append(stageLog,
                              [stage |-> "deletions", inp |-> inp, out |-> out])
     ELSE UNCHANGED <<img, deletions, modified_pdf, result, stageLog, faults>>
  /\ pc' = "split"
  /\ UNCHANGED <<derived, redactions, rotations, bookmarks, splitLog, s3,
                 s3_manager, operation, image_record, manipulations, pdf_bytes,
                 split_ranges, split_i, response, puts, startStatus, snapshot,
                 invocations>>
  /\ UNCHANGED <<event, elapsed, exc, progress, startStores>>

determine_split_strategy_always_full(sorted_breaks) == "full_split"

\* SplittingProcessor._determine_split_strategy
determine_split_strategy(sorted_breaks) ==
  IF Len(sorted_breaks) = 1 /\ sorted_breaks[1].PageIndex = 0
  THEN "rename_only" ELSE "full_split"

calculate_split_ranges_no_front(page_breaks, total_pages) ==
  [i \in 1..Len(page_breaks) |->
     <<page_breaks[i].PageIndex,
       IF i + 1 <= Len(page_breaks) THEN page_breaks[i + 1].PageIndex
       ELSE total_pages>>]

\* SplittingProcessor._calculate_split_ranges: <<start, end>>, end exclusive.
calculate_split_ranges(page_breaks, total_pages) ==
  (IF page_breaks[1].PageIndex > 0
   THEN << <<0, page_breaks[1].PageIndex>> >> ELSE <<>>)
  \o [i \in 1..Len(page_breaks) |->
        <<page_breaks[i].PageIndex,
          IF i + 1 <= Len(page_breaks) THEN page_breaks[i + 1].PageIndex
          ELSE total_pages>>]

\* SplittingProcessor._find_break_for_range: the first break at start_page,
\* or the empty set for the front section.
find_break_for_range(page_breaks, start_page) ==
  LET hits == {i \in 1..Len(page_breaks) : page_breaks[i].PageIndex = start_page}
  IN  IF hits = {} THEN {} ELSE {page_breaks[Min(hits)]}

\* _create_split_document, lines 225-232: insert_pdf(doc, from_page = start,
\* to_page = end - 1).  The engine clamps both page numbers into the source
\* and copies in reverse when from_page is past to_page.
ExtractPages(doc, start_page, end_page) ==
  LET last == Len(doc) - 1
      fp == MinOf(MaxOf(start_page, 0), last)
      tp == IF end_page - 1 < 0 THEN last ELSE MinOf(end_page - 1, last)
  IN  IF fp <= tp THEN SubSeq(doc, fp + 1, tp + 1)
      ELSE Reverse(SubSeq(doc, tp + 1, fp + 1))

\* DatabaseManager.clear_image_manipulations: resets Applied on every
\* redaction of the image.  Nothing in lambda_handler, the orchestrator,
\* the stage processors or handle_processing_error calls it, so no action
\* applies it.
clear_image_manipulations(t, ok) ==
  IF ok THEN [k \in DOMAIN t |-> [t[k] EXCEPT !.Applied = FALSE]] ELSE t

\* DatabaseManager.mark_bookmark_processed
mark_bookmark_processed(t, id, result_image_id, ok) ==
  IF ok THEN [t EXCEPT ![id].ResultImageID = result_image_id,
                       ![id].Deleted = TRUE]
  ELSE t

\* DatabaseManager.update_image_document_type: DocumentDate and Comments
\* are in the UPDATE only when the caller's values are truthy.
update_image_document_type(row, doc_type_id, document_date, comments, ok) ==
  IF ok
  THEN [row EXCEPT !.DocTypeManualID = doc_type_id,
                   !.DocumentDate = IF document_date # 0 THEN document_date ELSE @,
                   !.Comments = IF comments # "" THEN comments ELSE @]
  ELSE row

\* Orchestrator lines 147-155 and SplittingProcessor.process, lines 36-65,
\* with _handle_rename_only and the head of _handle_full_split.
SplitStart ==
  /\ pc = "split"
  /\ IF manipulations.pageBreaks = <<>>
     THEN /\ pc' = "save"
          /\ UNCHANGED <<img, bookmarks, result, split_ranges, split_i,
                         stageLog, faults>>
     ELSE LET inp == StageInput(pdf_bytes, modified_pdf)
              sorted_breaks == manipulations.pageBreaks
              strategy == determine_split_strategy(sorted_breaks)
          IN  /\ stageLog' = Append(stageLog,
                              [stage |-> "splitting", inp |-> inp, out |-> inp])
              /\ IF strategy = "rename_only"
                 THEN /\ \E ok1 \in Outcomes, ok2 \in Outcomes :
                           /\ ok1 \/ ok2
                           /\ faults' = Charge(ok1 /\ ok2)
                           /\ img' = update_image_document_type(img,
                                       sorted_breaks[1].ImageDocumentTypeID,
                                       sorted_breaks[1].DocumentDate,
                                       sorted_breaks[1].Comments, ok1)
                           /\ bookmarks' = mark_bookmark_processed(bookmarks,
                                             sorted_breaks[1].ID, SourceId, ok2)
                      /\ result' = [result EXCEPT
                                      !.operationsApplied = Append(@, "splitting"),
                                      !.splitStrategy = strategy]
                      /\ pc' = "save"
                      /\ UNCHANGED <<split_ranges, split_i>>
                 ELSE /\ split_ranges' = calculate_split_ranges(sorted_breaks, Len(inp))
                      /\ split_i' = 1
                      /\ result' = [result EXCEPT !.splitStrategy = strategy]
                      /\ pc' = "split_create"
                      /\ UNCHANGED <<img, bookmarks, faults>>
  /\ UNCHANGED <<derived, redactions, rotations, deletions, splitLog, s3,
                 s3_manager, operation, image_record, manipulations, pdf_bytes,
                 modified_pdf, response, puts, startStatus, snapshot, invocations>>
  /\ UNCHANGED <<event, elapsed, exc, progress, startStores>>

NextImageId == SourceId + Len(derived) + 1

\* DatabaseManager.create_split_image, line 384: the comments of the new
\* row, a description of the split when the caller passes none.
DefaultComments == "Split from image"
split_comments(comments) == IF comments # "" THEN comments ELSE DefaultComments

\* DatabaseManager.create_split_image: the INSERT and its commit; a
\* database error is raised to the caller.  A column whose value is None
\* is left out of the INSERT.
create_split_image(original, new_id, doc_type_id, page_count, page_range, document_date, comments, split_type) ==
  [ID |-> new_id, PageCount |-> page_count, DocTypeManualID |-> doc_type_id,
   ImageStatusTypeID |-> 1, Deleted |-> FALSE, IsRedacted |-> FALSE,
   DocumentDate |-> document_date, Comments |-> split_comments(comments),
   SplitFromImageID |-> original, SplitType |-> split_type,
   pageRange |-> page_range]

\* _handle_full_split lines 136-157 and _create_split_document lines 234-243
SplitCreate ==
  /\ pc = "split_create"
  /\ LET rng == split_ranges[split_i]
         brk == find_break_for_range(manipulations.pageBreaks, rng[1])
         doc_type_id == IF brk # {}
                        THEN (CHOOSE b \in brk : TRUE).ImageDocumentTypeID
                        ELSE image_record.DocTypeManualID
         doc_date == IF brk # {} THEN (CHOOSE b \in brk : TRUE).DocumentDate
                     ELSE image_record.DocumentDate
         comments == IF brk # {} THEN (CHOOSE b \in brk : TRUE).Comments
                     ELSE image_record.Comments
         split_type == IF brk # {} THEN "page_break" ELSE "front_section"
     IN  \E ok \in Outcomes :
           /\ faults' = Charge(ok)
           /\ IF ok
              THEN /\ derived' = Append(derived,
                        create_split_image(SourceId, NextImageId, doc_type_id,
                                           rng[2] - rng[1], rng, doc_date,
                                           comments, split_type))
                   /\ pc' = "split_upload"
              ELSE /\ pc' = "error"
                   /\ UNCHANGED derived
  /\ UNCHANGED <<img, redactions, rotations, deletions, bookmarks, splitLog, s3,
                 s3_manager, locals, response, stageLog, puts, startStatus,
                 snapshot, invocations>>
  /\ exc' = IF pc' = "error" THEN Exception("Document splitting failed") ELSE exc
  /\ UNCHANGED <<event, elapsed, progress, startStores>>

\* _save_split_to_s3: the three keys of a derived document, in order.
SplitPaths(id) == << <<"Original", id>>, <<"Processing", id>>, <<"Production", id>> >>

RECURSIVE UploadAll(_, _, _, _)
UploadAll(store, paths, body, n) ==
  IF n = 0 \/ paths = <<>> THEN store
  ELSE UploadAll(upload_file(store, Head(paths), body, TRUE), Tail(paths), body, n - 1)

UploadFailures == IF faults < MaxFaults THEN 0..3 ELSE {0}

\* _create_split_document line 246 (_save_split_to_s3 raises at the first
\* failed put), then _handle_full_split lines 159-172.
SplitUpload ==
  /\ pc = "split_upload"
  /\ LET rng == split_ranges[split_i]
         new_image_id == derived[Len(derived)].ID
         body == ExtractPages(StageInput(pdf_bytes, modified_pdf), rng[1], rng[2])
         brk == find_break_for_range(manipulations.pageBreaks, rng[1])
         paths == SplitPaths(new_image_id)
     IN  \E failAt \in UploadFailures, okMark \in Outcomes :
           /\ failAt = 0 \/ okMark
           /\ faults' = Charge(failAt = 0 /\ okMark)
           /\ s3' = UploadAll(s3, paths, body, IF failAt = 0 THEN 3 ELSE failAt - 1)
           /\ puts' = puts \o [k \in 1..(IF failAt = 0 THEN 3 ELSE failAt) |->
                                 [key |-> paths[k], body |-> body,
                                  ok |-> (k # failAt), after |-> Len(stageLog)]]
           /\ IF failAt # 0
              THEN /\ pc' = "error"
                   /\ UNCHANGED <<bookmarks, result, split_i>>
              ELSE /\ result' = [result EXCEPT !.splitImages = Append(@, new_image_id)]
                   /\ bookmarks' = IF brk # {}
                                   THEN mark_bookmark_processed(bookmarks,
                                          (CHOOSE b \in brk : TRUE).ID, new_image_id, okMark)
                                   ELSE bookmarks
                   /\ split_i' = split_i + 1
                   /\ pc' = IF split_i < Len(split_ranges) THEN "split_create"
                            ELSE "split_log"
  /\ UNCHANGED <<img, derived, redactions, rotations, deletions, splitLog,
                 s3_manager, operation, image_record, manipulations, pdf_bytes,
                 modified_pdf, split_ranges, response, stageLog, startStatus,
                 snapshot, invocations>>
  /\ exc' = IF pc' = "error" THEN Exception("Document splitting failed") ELSE exc
  /\ UNCHANGED <<event, elapsed, progress, startStores>>

\* _handle_full_split lines 176-178: one create_split_log per new image,
\* each in its own commit; a failed insert returns False.
create_split_logs(log, original, new_ids, bad) ==
  log \o SelectSeq([i \in 1..Len(new_ids) |->
                      [OriginalImageID |-> original, SplitImageID |-> new_ids[i]]],
                   LAMBDA r : r.SplitImageID # bad)

\* Orchestrator lines 160-169: a split that produced new images marks the
\* source obsolete and returns without saving the buffer.
AfterSplitAlwaysSaves(new_image_ids) == "save"

AfterSplit(new_image_ids) ==
  IF new_image_ids # <<>> THEN "mark_obsolete" ELSE "save"

SplitLogs ==
  /\ pc = "split_log"
  /\ \E bad \in FailedMark(Range(result.splitImages)) :
       /\ faults' = Charge(bad = 0)
       /\ splitLog' = create_split_logs(splitLog, SourceId, result.splitImages, bad)
  /\ result' = [result EXCEPT !.operationsApplied = Append(@, "splitting")]
  /\ pc' = AfterSplit(result.splitImages)
  /\ UNCHANGED <<img, derived, redactions, rotations, deletions, bookmarks, s3,
                 s3_manager, operation, image_record, manipulations, pdf_bytes,
                 modified_pdf, split_ranges, split_i, response, stageLog, puts,
                 startStatus, snapshot, invocations>>
  /\ UNCHANGED <<event, elapsed, exc, progress, startStores>>

\* Orchestrator lines 160-167
MarkObsolete ==
  /\ pc = "mark_obsolete"
  /\ \E ok \in Outcomes :
       /\ img' = update_image_status(img, "Obsolete", ok)
       /\ faults' = Charge(ok)
  /\ pc' = "mark_complete"
  /\ UNCHANGED <<derived, redactions, rotations, deletions, bookmarks, splitLog,
                 s3, s3_manager, locals, response, stageLog, puts, startStatus,
                 snapshot, invocations>>
  /\ UNCHANGED <<event, elapsed, exc, progress, startStores>>

\* Orchestrator lines 169-180: the put of the processed PDF (its result is
\* not looked at) and the page count update.
Save ==
  /\ pc = "save"
  /\ \E ok1 \in Outcomes, ok2 \in Outcomes :
       /\ ok1 \/ ok2
       /\ faults' = Charge(ok1 /\ ok2)
       /\ s3' = upload_file(s3, ProcessingKey(SourceId), modified_pdf, ok1)
       /\ puts' = Append(puts, [key |-> ProcessingKey(SourceId),
                                body |-> modified_pdf, ok |-> ok1,
                                after |-> Len(stageLog)])
       /\ IF result.finalPageCount # 0
             /\ result.finalPageCount # image_record.PageCount
          THEN img' = update_page_count(img, result.finalPageCount, ok2)
          ELSE /\ img' = img
               /\ ok2
  /\ pc' = "mark_complete"
  /\ UNCHANGED <<derived, redactions, rotations, deletions, bookmarks, splitLog,
                 s3_manager, locals, response, stageLog, startStatus, snapshot,
                 invocations>>
  /\ UNCHANGED <<event, elapsed, exc, progress, startStores>>

\* ManipulationOrchestrator.perform_health_check: reads only.
HealthCheck ==
  /\ pc = "health"
  /\ pc' = "mark_complete"
  /\ UNCHANGED <<dbvars, s3, s3_manager, locals, response, stageLog, puts,
                 startStatus, snapshot, invocations, faults>>
  /\ UNCHANGED <<event, elapsed, exc, progress, startStores>>

CompletionStatus_stays_in_workman(res) == "InWorkman"

\* The status main.py writes once the operation has returned (line 96).
CompletionStatus(res) == "NeedsProcessing"

\* main.py lines 91-110: the status write, the last progress update, the
\* response.  An exception out of line 97 would be caught at line 112.
MarkCompleteUpdate(before, o) ==
  update_progress(before, session_id, "completed", 100, img'.ImageStatusTypeID, o)

MarkCompletePipeline(o) ==
  /\ pc = "mark_complete"
  /\ \E ok \in Outcomes :
       /\ img' = update_image_status(img, CompletionStatus(result), ok)
       /\ faults' = Charge(ok)
  /\ IF sends(session_id) /\ await_safe(o) = "raised"
     THEN /\ pc' = "error"
          /\ exc' = Exception("progress update failed")
          /\ UNCHANGED <<response, snapshot>>
     ELSE /\ response' = SuccessResponse
          /\ snapshot' = IF operation = "process_manipulations" THEN Stores(img')
                         ELSE snapshot
          /\ pc' = "done"
          /\ exc' = exc
  /\ UNCHANGED <<event, elapsed, startStores>>
  /\ UNCHANGED <<derived, redactions, rotations, deletions, bookmarks, splitLog,
                 s3, s3_manager, locals, stageLog, puts, startStatus, invocations>>

MarkComplete ==
  \E o \in Deliveries(invoker) :
    /\ MarkCompletePipeline(o)
    /\ progress' = MarkCompleteUpdate(progress, o)

handle_processing_error_keeps_status(row, ok) == row

\* handle_processing_error, line 146: the status reset.
handle_processing_error(row, ok) ==
  update_image_status(row, "NeedsImageManipulation", ok)

\* main.py lines 112-135 with handle_processing_error: the recovery runs
\* only for a payload that had an imageId; the error update follows the
\* status reset, inside the try of lines 139-156.
HandleErrorUpdate(before, o) ==
  IF image_id # 0
  THEN update_progress(before, session_id, "error", 0, img'.ImageStatusTypeID, o)
  ELSE before

HandleErrorPipeline(o) ==
  /\ pc = "error"
  /\ IF image_id # 0
     THEN \E ok \in Outcomes :
            /\ img' = handle_processing_error(img, ok)
            /\ faults' = Charge(ok)
     ELSE UNCHANGED <<img, faults>>
  /\ response' = ErrorResponse(image_id, exc)
  /\ pc' = "done"
  /\ UNCHANGED <<event, elapsed, exc, startStores>>
  /\ UNCHANGED <<derived, redactions, rotations, deletions, bookmarks, splitLog,
                 s3, s3_manager, locals, stageLog, puts, startStatus, snapshot,
                 invocations>>

HandleError ==
  \E o \in Deliveries(invoker) :
    /\ HandleErrorPipeline(o)
    /\ progress' = HandleErrorUpdate(progress, o)

\* The except branch of a stage's process(): the engine raises on the
\* document (fitz.open on corrupt content) before the stage changed
\* anything, and the stage re-raises.
StageRaises ==
  /\ \/ pc = "redact" /\ manipulations.redactions # <<>>
     \/ pc = "rotate" /\ manipulations.rotations # <<>>
     \/ pc = "delete" /\ manipulations.deletions # <<>>
     \/ pc = "split" /\ manipulations.pageBreaks # <<>>
  /\ faults < MaxFaults
  /\ faults' = faults + 1
  /\ exc' = Exception("processing failed")
  /\ pc' = "error"
  /\ UNCHANGED <<dbvars, s3, s3_manager, locals, response, stageLog, puts,
                 startStatus, snapshot, invocations, event, elapsed, progress,
                 startStores>>

Next == Invoke \/ SetInWorkman \/ Load \/ Download \/ Backup \/ Redact
        \/ StageRaises \/ Tick \/ CheckTimeout \/ Rotate \/ Delete \/ SplitStart \/ SplitCreate
        \/ SplitUpload \/ SplitLogs \/ MarkObsolete \/ Save \/ HealthCheck
        \/ MarkComplete \/ HandleError

Spec == Init /\ [][Next]_vars

\* ------------------------------------------- the page-edit stages alone
\* RotationProcessor.process and DeletionProcessor.process take any list of
\* rows: here the invocation stands before the rotation stage with a
\* buffer of up to MaxStagePages pages, rotated or not, and either a list
\* of rotation rows or a list of deletion rows, in any order, with
\* duplicates, with page indices before, in and past the buffer and with
\* an angle that is not a quarter turn.
SeqsUpTo(S, n) == UNION {[1..m -> S] : m \in 0..n}
StageIndices == -1..MaxStagePages
StageRotationRows ==
  {[i \in 1..Len(f) |-> [ID |-> i, PageIndex |-> f[i][1], Rotate |-> f[i][2]]] :
     f \in SeqsUpTo(StageIndices \X {0, 90, 45}, MaxStageRows - 1)}
StageDeletionRows ==
  {[i \in 1..Len(f) |-> [ID |-> i, PageIndex |-> f[i], Processed |-> FALSE]] :
     f \in SeqsUpTo(StageIndices, MaxStageRows)}
StageBuffers ==
  {[i \in 1..n |-> [Page(i - 1) EXCEPT !.rot = a]] :
     n \in 1..MaxStagePages, a \in {0, 180}}

InitStages ==
  /\ invoker = "scheduler"
  /\ \E doc \in StageBuffers :
       /\ img = [ImageStatusTypeID |-> status_mapping.InWorkman,
                 Deleted |-> FALSE, PageCount |-> Len(doc),
                 DocTypeManualID |-> 5, DocumentDate |-> 10, Comments |-> ""]
       /\ s3 = (ProcessingKey(SourceId) :> doc)
       /\ pdf_bytes = doc
       /\ modified_pdf = doc
       /\ image_record = [PageCount |-> Len(doc), DocTypeManualID |-> 5,
                          DocumentDate |-> 10, Comments |-> ""]
  /\ \E rots \in StageRotationRows, dels \in StageDeletionRows :
       /\ rots = <<>> \/ dels = <<>>
       /\ rotations = rots
       /\ deletions = dels
       /\ manipulations = [redactions |-> <<>>, rotations |-> rots,
                           deletions |-> dels, pageBreaks |-> <<>>]
  /\ derived = <<>>
  /\ redactions = <<>>
  /\ bookmarks = <<>>
  /\ splitLog = <<>>
  /\ s3_manager = "KeyAndPrefix"
  /\ pc = "rotate"
  /\ operation = "process_manipulations"
  /\ result = EmptyResult
  /\ split_ranges = <<>>
  /\ split_i = 0
  /\ response = NoResponse
  /\ image_id = SourceId
  /\ session_id = "session"
  /\ timeout_seconds = DefaultTimeout
  /\ elapsed = 0
  /\ exc = NoException
  /\ progress = <<>>
  /\ startStores = NoSnapshot
  /\ stageLog = <<>>
  /\ puts = <<>>
  /\ startStatus = status_mapping.NeedsImageManipulation
  /\ snapshot = NoSnapshot
  /\ invocations = 1
  /\ faults = 0
  /\ api = NoRequest

NextStages == Rotate \/ Delete

SpecStages == InitStages /\ [][NextStages]_vars

SpecAnyPayload == InitAnyPayload /\ [][Next]_vars

\* ------------------------------------ the split_document entry point
\* lambda_function.py is the handler of the split_document operation: its
\* payload carries the bookmarks, which it does not read from the table.
\* parse_and_validate_payload, lines 203-208: the fields of a bookmark.
\* None is 0.
payload_bookmarks(rows) ==
  [i \in 1..Len(rows) |->
     [bookmarkId |-> rows[i].ID, pageIndex |-> rows[i].PageIndex,
      documentTypeId |-> rows[i].ImageDocumentTypeID,
      documentDate |-> rows[i].DocumentDate, comments |-> rows[i].Comments]]

\* sorted(seq, key=lambda x: x[col]) and list.sort(key=...): stable.
RECURSIVE SortedByKey(_, _)
SortedByKey(seq, col) ==
  IF seq = <<>> THEN <<>>
  ELSE LET i == Min({a \in 1..Len(seq) :
                       \A b \in 1..Len(seq) : seq[a][col] <= seq[b][col]})
       IN  <<seq[i]>>
           \o SortedByKey(SubSeq(seq, 1, i - 1) \o SubSeq(seq, i + 1, Len(seq)), col)

\* lambda_function.calculate_split_ranges, lines 366-398: the loop over the
\* sorted bookmarks with current_start, from bookmark i on.
RECURSIVE bookmark_ranges_split_points(_, _, _)
bookmark_ranges_split_points(sorted_bookmarks, i, current_start) ==
  IF i > Len(sorted_bookmarks) THEN <<>>
  ELSE LET split_point == sorted_bookmarks[i].pageIndex
           here == IF current_start < split_point
                   THEN <<[startPage |-> current_start,
                           endPage |-> split_point - 1,
                           documentTypeId |-> sorted_bookmarks[i].documentTypeId,
                           documentDate |-> sorted_bookmarks[i].documentDate,
                           comments |-> sorted_bookmarks[i].comments,
                           bookmarkId |-> sorted_bookmarks[i].bookmarkId]>>
                   ELSE <<>>
       IN  here \o bookmark_ranges_split_points(sorted_bookmarks, i + 1, split_point)

RECURSIVE bookmark_ranges(_, _, _)
bookmark_ranges(sorted_bookmarks, i, current_start) ==
  IF i > Len(sorted_bookmarks) THEN <<>>
  ELSE LET split_point == sorted_bookmarks[i].pageIndex
           here == IF current_start < split_point
                   THEN IF i = 1
                        THEN <<[startPage |-> current_start,
                                endPage |-> split_point - 1,
                                documentTypeId |-> 0, documentDate |-> 0,
                                comments |-> "Pages before first bookmark",
                                bookmarkId |-> 0]>>
                        ELSE LET prev_bookmark == sorted_bookmarks[i - 1]
                             IN  <<[startPage |-> current_start,
                                    endPage |-> split_point - 1,
                                    documentTypeId |-> prev_bookmark.documentTypeId,
                                    documentDate |-> prev_bookmark.documentDate,
                                    comments |-> prev_bookmark.comments,
                                    bookmarkId |-> prev_bookmark.bookmarkId]>>
                   ELSE <<>>
       IN  here \o bookmark_ranges(sorted_bookmarks, i + 1, split_point)

\* Lines 400-411: the pages from the last bookmark on.
remaining_pages_range(sorted_bookmarks, total_pages) ==
  LET last_bookmark == sorted_bookmarks[Len(sorted_bookmarks)]
  IN  IF last_bookmark.pageIndex < total_pages
      THEN <<[startPage |-> last_bookmark.pageIndex, endPage |-> total_pages - 1,
              documentTypeId |-> last_bookmark.documentTypeId,
              documentDate |-> last_bookmark.documentDate,
              comments |-> last_bookmark.comments,
              bookmarkId |-> last_bookmark.bookmarkId]>>
      ELSE <<>>

lambda_function_calculate_split_ranges_split_points(bookmarks_, total_pages) ==
  IF bookmarks_ = <<>> THEN <<>>
  ELSE LET sorted_bookmarks == SortedByKey(bookmarks_, "pageIndex")
       IN  SortedByKey(bookmark_ranges_split_points(sorted_bookmarks, 1, 0)
                       \o remaining_pages_range(sorted_bookmarks, total_pages),
                       "startPage")

\* lambda_function.calculate_split_ranges, lines 327-421: ranges with
\* inclusive end pages; no range for a single bookmark at page 0.
lambda_function_calculate_split_ranges(bookmarks_, total_pages) ==
  IF bookmarks_ = <<>>
  THEN <<[startPage |-> 0, endPage |-> total_pages - 1, documentTypeId |-> 0,
          documentDate |-> 0, comments |-> "", bookmarkId |-> 0]>>
  ELSE LET sorted_bookmarks == SortedByKey(bookmarks_, "pageIndex")
       IN  IF Len(sorted_bookmarks) = 1 /\ sorted_bookmarks[1].pageIndex = 0
           THEN <<>>
           ELSE SortedByKey(bookmark_ranges(sorted_bookmarks, 1, 0)
                            \o remaining_pages_range(sorted_bookmarks, total_pages),
                            "startPage")

\* The two computations taken alone, on a document of up to MaxRangePages
\* pages and up to MaxBookmarks breaks at any page index from 0 to
\* MaxRangePages: in and past the document, distinct or not.
BreakRows ==
  {[k \in 1..Len(f) |-> [ID |-> k, PageIndex |-> f[k],
                         ImageDocumentTypeID |-> 6 + k, DocumentDate |-> 10 + k,
                         Comments |-> "", ResultImageID |-> 0, Deleted |-> FALSE]] :
     f \in SeqsUpTo(0..MaxRangePages, MaxBookmarks)}

InitSplitRanges ==
  /\ invoker = "scheduler"
  /\ \E n \in 1..MaxRangePages :
       /\ img = [ImageStatusTypeID |-> status_mapping.InWorkman,
                 Deleted |-> FALSE, PageCount |-> n,
                 DocTypeManualID |-> 5, DocumentDate |-> 10, Comments |-> ""]
       /\ s3 = (ProcessingKey(SourceId) :> NewPdf(n))
       /\ pdf_bytes = NewPdf(n)
       /\ modified_pdf = NewPdf(n)
       /\ image_record = [PageCount |-> n, DocTypeManualID |-> 5,
                          DocumentDate |-> 10, Comments |-> ""]
  /\ bookmarks \in BreakRows
  /\ manipulations = EmptyManipulations
  /\ derived = <<>>
  /\ redactions = <<>>
  /\ rotations = <<>>
  /\ deletions = <<>>
  /\ splitLog = <<>>
  /\ s3_manager = "KeyAndPrefix"
  /\ pc = "ranges"
  /\ operation = "split_document"
  /\ result = EmptyResult
  /\ split_ranges = <<>>
  /\ split_i = 0
  /\ response = NoResponse
  /\ image_id = SourceId
  /\ session_id = "session"
  /\ timeout_seconds = DefaultTimeout
  /\ elapsed = 0
  /\ exc = NoException
  /\ progress = <<>>
  /\ startStores = NoSnapshot
  /\ stageLog = <<>>
  /\ puts = <<>>
  /\ startStatus = status_mapping.NeedsImageManipulation
  /\ snapshot = NoSnapshot
  /\ invocations = 1
  /\ faults = 0
  /\ api = NoRequest

\* SplittingProcessor.process, lines 53-76, on the breaks of the table.
ProcessorRanges ==
  /\ pc = "ranges"
  /\ LoadedPageBreaks # <<>>
  /\ split_ranges' = calculate_split_ranges(LoadedPageBreaks, Len(pdf_bytes))
  /\ pc' = "processor_ranges"
  /\ UNCHANGED <<dbvars, s3, s3_manager, operation, image_record, manipulations,
                 pdf_bytes, modified_pdf, result, split_i, response, stageLog,
                 puts, startStatus, snapshot, invocations, faults>>
  /\ UNCHANGED <<event, elapsed, exc, progress, startStores>>

\* process_document_splitting, line 249, on the same breaks as a payload.
EntryPointRanges ==
  /\ pc = "ranges"
  /\ split_ranges' = lambda_function_calculate_split_ranges(
                        payload_bookmarks(OrderBy(bookmarks, DOMAIN bookmarks, "ID")),
                        Len(pdf_bytes))
  /\ pc' = "entry_point_ranges"
  /\ UNCHANGED <<dbvars, s3, s3_manager, operation, image_record, manipulations,
                 pdf_bytes, modified_pdf, result, split_i, response, stageLog,
                 puts, startStatus, snapshot, invocations, faults>>
  /\ UNCHANGED <<event, elapsed, exc, progress, startStores>>

NextSplitRanges == ProcessorRanges \/ EntryPointRanges

SpecSplitRanges == InitSplitRanges /\ [][NextSplitRanges]_vars

\* ------------------------- the split_document handler (lambda_function.py)
\* lambda_function.lambda_handler serves the split_document operation,
\* which main.py does not route.  Its progress updates are PUTs of
\* api_callbacks.update_processing_status, which returns False when the
\* request fails; an update is an entry of the progress log whether or not
\* the endpoint took it.
PDFProcessingError(msg) == [type |-> "PDFProcessingError", msg |-> msg]
DatabaseError(msg) == [type |-> "DatabaseError", msg |-> msg]

\* update_processing_status(session_id, 'error', error=...) carries no
\* progress field (api_callbacks.py lines 160-161).
NoProgress == -1

status_update(log, status, percent, rowStatus) ==
  Append(log, [status |-> status, progress |-> percent,
               rowStatus |-> rowStatus, outcome |-> "ok"])

\* api_callbacks.verify_session_exists(session_id): the processing session
\* is looked up through the API; either answer is possible.
verify_session_exists(session) == BOOLEAN

\* The payloads sent to the handler: documentId and sessionId may be
\* missing or empty (0 and ""), operation may be missing ("") or one the
\* handler does not support; the bookmarks are the rows of the table.
SplitDocumentEvents ==
  [operation : {"split_document", "process_manipulations", ""},
   documentId : {SourceId, 0}, sessionId : {"session", ""}]

\* parse_and_validate_payload, lines 186-197
valid_payload(e) == e.operation # "" /\ e.documentId > 0 /\ e.sessionId # ""

Payload == payload_bookmarks(OrderBy(bookmarks, DOMAIN bookmarks, "ID"))

\* lambda_handler lines 88-118: the payload is parsed; session_id stays
\* None when that raises.  Then the session is verified (a missing session
\* is only reported), the first update is sent and the operation routed.
SplitDocumentInvoke ==
  /\ invoker = "split_document"
  /\ pc \in {"idle", "done"}
  /\ invocations < MaxInvocations
  /\ invocations' = invocations + 1
  /\ \E e \in SplitDocumentEvents :
       /\ operation' = e.operation
       /\ image_id' = e.documentId
       /\ IF ~valid_payload(e)
          THEN /\ session_id' = ""
               /\ progress' = <<>>
               /\ exc' = PDFProcessingError("Payload validation failed")
               /\ pc' = "sd_error"
          ELSE /\ session_id' = e.sessionId
               /\ \E exists \in verify_session_exists(e.sessionId) :
                    progress' = status_update(<<>>, "processing", 10,
                                              img.ImageStatusTypeID)
               /\ IF e.operation = "split_document"
                  THEN exc' = NoException /\ pc' = "sd_download"
                  ELSE /\ exc' = PDFProcessingError("Unsupported operation")
                       /\ pc' = "sd_error"
  /\ elapsed' = 0
  /\ startStores' = Stores(img)
  /\ startStatus' = img.ImageStatusTypeID
  /\ image_record' = NoRecord
  /\ manipulations' = EmptyManipulations
  /\ pdf_bytes' = <<>>
  /\ modified_pdf' = <<>>
  /\ result' = EmptyResult
  /\ split_ranges' = <<>>
  /\ split_i' = 0
  /\ response' = NoResponse
  /\ stageLog' = <<>>
  /\ puts' = <<>>
  /\ UNCHANGED <<dbvars, s3, s3_manager, snapshot, faults, timeout_seconds,
                 invoker, api>>

\* process_document_splitting lines 235-262: download_pdf_from_s3 raises
\* when the object is missing or the read fails; then the split ranges.
\* Without ranges (the Index Only case) a completed update is sent and the
\* empty result list returned.
SplitDocumentDownload ==
  /\ pc = "sd_download"
  /\ \E ok \in Outcomes :
       /\ faults' = Charge(ok)
       /\ IF ok /\ ProcessingKey(image_id) \in DOMAIN s3
             /\ Len(s3[ProcessingKey(image_id)]) > 0
          THEN LET source_pdf_data == s3[ProcessingKey(image_id)]
                   ranges == lambda_function_calculate_split_ranges(
                               Payload, Len(source_pdf_data))
                   sent == status_update(
                             status_update(
                               status_update(progress, "processing", 20,
                                             img.ImageStatusTypeID),
                               "processing", 30, img.ImageStatusTypeID),
                             "processing", 40, img.ImageStatusTypeID)
               IN  /\ pdf_bytes' = source_pdf_data
                   /\ split_ranges' = ranges
                   /\ IF ranges = <<>>
                      THEN /\ progress' = status_update(sent, "completed", 100,
                                                        img.ImageStatusTypeID)
                           /\ split_i' = 0
                           /\ pc' = "sd_complete"
                      ELSE /\ progress' = sent
                           /\ split_i' = 1
                           /\ pc' = "sd_split"
                   /\ exc' = exc
          ELSE /\ progress' = status_update(progress, "processing", 20,
                                            img.ImageStatusTypeID)
               /\ exc' = Exception("Failed to download PDF")
               /\ pc' = "sd_error"
               /\ UNCHANGED <<pdf_bytes, split_ranges, split_i>>
  /\ UNCHANGED <<dbvars, s3, s3_manager, operation, image_record, manipulations,
                 modified_pdf, result, response, stageLog, puts, startStatus,
                 snapshot, invocations, event, elapsed, startStores>>

\* process_single_split lines 444-447: the pages of the range that exist.
split_pages(doc, start_page, end_page) ==
  [k \in 1..(MinOf(end_page, Len(doc) - 1) - start_page + 1) |-> doc[start_page + k]]

\* database_operations.create_image_record: the INSERT names no status.
create_image_record(source_document_id, new_id, split_range, page_count) ==
  [ID |-> new_id, PageCount |-> page_count,
   DocTypeManualID |-> split_range.documentTypeId,
   DocumentDate |-> split_range.documentDate,
   Comments |-> split_range.comments, Deleted |-> FALSE,
   SplitFromImageID |-> source_document_id, Path |-> <<>>]

\* database_operations.update_image_record_s3_info
update_image_record_s3_info(rows, new_id, s3_key) ==
  [i \in 1..Len(rows) |->
     IF rows[i].ID = new_id THEN [rows[i] EXCEPT !.Path = s3_key] ELSE rows[i]]

SingleSplitOutcomes ==
  IF faults < MaxFaults
  THEN {"ok", "create_image_record", "upload_split_to_s3",
        "update_image_record_s3_info"}
  ELSE {"ok"}

\* process_document_splitting lines 267-273 and process_single_split: the
\* row is inserted first, the object put under the new id, then the row
\* is given its key.  Each of the three raises on failure.
SplitDocumentSingle ==
  /\ pc = "sd_split"
  /\ LET split_range == split_ranges[split_i]
         start_page == split_range.startPage
         end_page == split_range.endPage
         new_image_id == NextImageId
         s3_key == ProcessingKey(new_image_id)
         row == create_image_record(image_id, new_image_id, split_range,
                                    end_page - start_page + 1)
     IN  \E o \in SingleSplitOutcomes :
           /\ faults' = IF o = "ok" THEN faults ELSE faults + 1
           /\ progress' = status_update(progress, "processing",
                             50 + (((split_i - 1) * 30) \div Len(split_ranges)),
                             img.ImageStatusTypeID)
           /\ derived' = IF o = "create_image_record" THEN derived
                         ELSE IF o = "ok"
                         THEN update_image_record_s3_info(Append(derived, row),
                                                          new_image_id, s3_key)
                         ELSE Append(derived, row)
           /\ s3' = IF o \in {"ok", "update_image_record_s3_info"}
                    THEN upload_file(s3, s3_key,
                                     split_pages(pdf_bytes, start_page, end_page),
                                     TRUE)
                    ELSE s3
           /\ puts' = IF o = "create_image_record" THEN puts
                      ELSE Append(puts,
                             [key |-> s3_key,
                              body |-> split_pages(pdf_bytes, start_page, end_page),
                              ok |-> (o # "upload_split_to_s3"),
                              after |-> Len(stageLog)])
           /\ IF o = "ok"
              THEN /\ result' = [result EXCEPT !.splitImages =
                        Append(@, [resultImageId |-> new_image_id,
                                   bookmarkId |-> split_range.bookmarkId,
                                   startPage |-> start_page,
                                   endPage |-> end_page,
                                   pageCount |-> end_page - start_page + 1])]
                   /\ exc' = exc
                   /\ IF split_i < Len(split_ranges)
                      THEN split_i' = split_i + 1 /\ pc' = "sd_split"
                      ELSE split_i' = split_i /\ pc' = "sd_records"
              ELSE /\ exc' = PDFProcessingError("Split processing failed")
                   /\ pc' = "sd_error"
                   /\ UNCHANGED <<result, split_i>>
  /\ UNCHANGED <<img, redactions, rotations, deletions, bookmarks, splitLog,
                 s3_manager, operation, image_record, manipulations, pdf_bytes,
                 modified_pdf, split_ranges, response, stageLog, startStatus,
                 snapshot, invocations, event, elapsed, startStores>>

\* database_operations.update_database_records, lines 321-349: in one
\* transaction each bookmark named by a result is given its ResultImageID.
update_database_records(t, results) ==
  [k \in DOMAIN t |->
     LET rs == {i \in 1..Len(results) :
                  results[i].bookmarkId = k /\ results[i].bookmarkId # 0
                  /\ results[i].resultImageId # 0}
     IN  IF rs = {} THEN t[k]
         ELSE [t[k] EXCEPT !.ResultImageID = results[Max(rs)].resultImageId]]

\* database_operations.mark_original_document_obsolete, lines 239-250:
\* UPDATE Image SET ImageStatusTypeID = 7.
mark_original_document_obsolete(row) ==
  [row EXCEPT !.ImageStatusTypeID = 7]

RecordsOutcomes ==
  IF faults < MaxFaults
  THEN {"ok", "update_database_records", "mark_original_document_obsolete"}
  ELSE {"ok"}

\* process_document_splitting lines 277-290
SplitDocumentRecords ==
  /\ pc = "sd_records"
  /\ \E o \in RecordsOutcomes :
       /\ faults' = IF o = "ok" THEN faults ELSE faults + 1
       /\ bookmarks' = IF o = "update_database_records" THEN bookmarks
                       ELSE update_database_records(bookmarks, result.splitImages)
       /\ img' = IF o = "ok" THEN mark_original_document_obsolete(img) ELSE img
       /\ progress' =
            IF o = "update_database_records"
            THEN status_update(progress, "processing", 80, img.ImageStatusTypeID)
            ELSE status_update(
                   status_update(progress, "processing", 80, img.ImageStatusTypeID),
                   "processing", 90, img.ImageStatusTypeID)
       /\ IF o = "ok"
          THEN exc' = exc /\ pc' = "sd_complete"
          ELSE exc' = DatabaseError(o) /\ pc' = "sd_error"
  /\ UNCHANGED <<derived, redactions, rotations, deletions, splitLog, s3,
                 s3_manager, locals, response, stageLog, puts, startStatus,
                 snapshot, invocations, event, elapsed, startStores>>

\* lambda_handler lines 120-136: the completed update, the results are
\* linked through the API (a failure there is logged), the response.
SplitDocumentComplete ==
  /\ pc = "sd_complete"
  /\ progress' = status_update(progress, "completed", 100, img.ImageStatusTypeID)
  /\ response' = [statusCode |-> 200, success |-> TRUE, error |-> NoError]
  /\ pc' = "done"
  /\ snapshot' = Stores(img)
  /\ UNCHANGED <<dbvars, s3, s3_manager, locals, stageLog, puts, startStatus,
                 invocations, faults, event, elapsed, exc, startStores>>

\* lambda_handler lines 138-160: the error update is sent when the payload
\* gave a session id.
SplitDocumentError ==
  /\ pc = "sd_error"
  /\ progress' = IF session_id # ""
                 THEN status_update(progress, "error", NoProgress,
                                    img.ImageStatusTypeID)
                 ELSE progress
  /\ response' = [statusCode |-> 500, success |-> FALSE,
                  error |-> [text |-> "Processing failed", imageId |-> image_id,
                             cause |-> exc.msg]]
  /\ pc' = "done"
  /\ UNCHANGED <<dbvars, s3, s3_manager, locals, stageLog, puts, startStatus,
                 snapshot, invocations, faults, event, elapsed, exc, startStores>>

InitSplitDocument ==
  InitWith("split_document", {{}}, {{}}, {{}}, SUBSET {1, 2}) /\ api = NoRequest

NextSplitDocument ==
  SplitDocumentInvoke \/ SplitDocumentDownload \/ SplitDocumentSingle
  \/ SplitDocumentRecords \/ SplitDocumentComplete \/ SplitDocumentError

SpecSplitDocument == InitSplitDocument /\ [][NextSplitDocument]_vars

\* ----------------------------------------------------- the API request
\* update_processing_status taken alone: one call, with API_BASE_URL set
\* or not and API_RETRY_ATTEMPTS from 0 to MaxRetryAttempts, against an
\* API that answers each attempt in any way.
InitApiRequest ==
  /\ InitWith("scheduler", {{}}, {{}}, {{}}, {{}})
  /\ \E c \in BOOLEAN, n \in 0..MaxRetryAttempts :
       api = [NoRequest EXCEPT !.state = "requesting", !.configured = c,
                               !.retry_attempts = n]

others == <<img, derived, redactions, rotations, deletions, bookmarks, splitLog,
            s3, pc, operation, s3_manager, image_record, manipulations,
            pdf_bytes, modified_pdf, result, split_ranges, split_i, response,
            stageLog, puts, startStatus, snapshot, invocations, faults,
            image_id, session_id, timeout_seconds, elapsed, exc, progress,
            startStores, invoker>>

\* make_api_request, lines 84-135: one execution of the function body.
\* get_api_config raises ValueError without API_BASE_URL, which none of
\* the except clauses catches; otherwise one HTTP attempt is made and the
\* function returns, calls itself with retry_count + 1, or raises
\* APICallbackError.
MakeApiRequest ==
  /\ api.state = "requesting"
  /\ IF ~api.configured
     THEN api' = [api EXCEPT !.state = "raised"]
     ELSE \E outcome \in HttpOutcomes :
            api' = [api EXCEPT
                      !.log = Append(@, outcome),
                      !.retry_count =
                         IF retry(outcome, api.retry_count, api.retry_attempts)
                         THEN @ + 1 ELSE @,
                      !.state =
                         IF outcome \in {"200", "201", "204"} THEN "returned"
                         ELSE IF retry(outcome, api.retry_count, api.retry_attempts)
                              THEN "requesting" ELSE "raised"]
  /\ UNCHANGED others

\* update_processing_status, lines 170-178: True after make_api_request
\* returned, False after it raised.
UpdateProcessingStatus ==
  /\ api.state \in {"returned", "raised"}
  /\ ~api.updated
  /\ api' = [api EXCEPT !.updated = TRUE,
                        !.status_update =
                           update_processing_status(IF api.state = "returned"
                                                    THEN "ok" ELSE "raised")]
  /\ UNCHANGED others

NextApiRequest == MakeApiRequest \/ UpdateProcessingStatus

SpecApiRequest == InitApiRequest /\ [][NextApiRequest]_vars

\* The scheduler's payloads against a callback endpoint that may fail, on
\* documents with a redaction and with or without a page break.
InitCallbacks == InitWith("callbacks", {{1}}, {{}}, {{}}, {{}, {2}}) /\ api = NoRequest

SpecCallbacks == InitCallbacks /\ [][Next]_vars

\* The handler once invoked runs to its return: the runtime does not
\* suspend an invocation, and no step of lambda_handler waits for anything
\* but a call that returns or raises.  The scheduler's payloads, on documents
\* with a redaction, with or without a deletion and a page break.
Run == SetInWorkman \/ Load \/ Download \/ Backup \/ Redact \/ StageRaises
       \/ CheckTimeout \/ Rotate \/ Delete \/ SplitStart \/ SplitCreate
       \/ SplitUpload \/ SplitLogs \/ MarkObsolete \/ Save \/ HealthCheck
       \/ MarkComplete \/ HandleError

InitTerminates == InitWith("scheduler", {{1}}, {{}}, {{}, {1}}, {{}, {2}}) /\ api = NoRequest

SpecTerminates == InitTerminates /\ [][Next]_vars /\ WF_vars(Run)

\* ------------------------------------------------------------ properties
ProcessManipulations == operation = "process_manipulations"
Succeeded == pc = "done" /\ response.success
TotalManipulations ==
  Len(manipulations.redactions) + Len(manipulations.rotations)
  + Len(manipulations.deletions) + Len(manipulations.pageBreaks)
PutsTo(key) == {i \in 1..Len(puts) : puts[i].key = key}
DerivedIds == {derived[i].ID : i \in 1..Len(derived)}

StageRank ==
  [redactions |-> 1, rotations |-> 2, deletions |-> 3, splitting |-> 4]
StageEdits ==
  [redactions |-> manipulations.redactions, rotations |-> manipulations.rotations,
   deletions |-> manipulations.deletions, splitting |-> manipulations.pageBreaks]

\* C1: the stages an invocation runs are in the order redactions, rotations,
\* deletions, splitting; none runs twice; none starts while an earlier-ordered
\* stage with pending edits has not run; the first one gets the fetched bytes
\* and every later one the output of the stage run before it.
C1_StagesInFixedOrder ==
  /\ \A i, j \in 1..Len(stageLog) :
       i < j => StageRank[stageLog[i].stage] < StageRank[stageLog[j].stage]
  /\ \A i \in 1..Len(stageLog) : \A t \in DOMAIN StageRank :
       (StageRank[t] < StageRank[stageLog[i].stage] /\ StageEdits[t] # <<>>)
         => \E j \in 1..(i - 1) : stageLog[j].stage = t
  /\ stageLog # <<>> => stageLog[1].inp = pdf_bytes
  /\ \A i \in 2..Len(stageLog) : stageLog[i].inp = stageLog[i - 1].out

\* C1 witness: an invocation that ran all four stages, the first of which
\* changed the buffer.
C1_Witness ==
  /\ pc = "done"
  /\ Len(stageLog) = 4
  /\ stageLog[1].out # stageLog[1].inp

\* C2 (as claimed): at every state the effects of a full split are visible
\* all together or not at all: derived rows, ResultImageID updates pointing
\* at them, split log rows and the Obsolete status of the source.
C2_NoSplitEffect ==
  /\ derived = <<>>
  /\ \A k \in DOMAIN bookmarks : bookmarks[k].ResultImageID \in {0, SourceId}
  /\ splitLog = <<>>
  /\ img.ImageStatusTypeID # status_mapping.Obsolete
C2_AllSplitEffects ==
  /\ derived # <<>>
  /\ \A i \in 1..Len(derived) :
       /\ \E j \in 1..Len(splitLog) : splitLog[j].SplitImageID = derived[i].ID
       /\ derived[i].SplitType = "page_break"
            => \E k \in DOMAIN bookmarks : bookmarks[k].ResultImageID = derived[i].ID
  /\ img.ImageStatusTypeID = status_mapping.Obsolete
C2_SplitAllOrNothing ==
  faults = 0 => (C2_NoSplitEffect \/ C2_AllSplitEffects)

\* C3 (as claimed): when process_manipulations has returned success, the
\* source's status is Obsolete if the split inserted a derived document and
\* NeedsProcessing otherwise.
C3_StatusAfterSuccess ==
  (faults = 0 /\ Succeeded /\ ProcessManipulations) =>
    img.ImageStatusTypeID =
      IF result.splitImages # <<>> THEN status_mapping.Obsolete
      ELSE status_mapping.NeedsProcessing

\* C4 (as claimed): a successful process_manipulations run that directly
\* follows a successful one leaves every row and every object as the first
\* run left them.
C4_RerunChangesNothing ==
  [][(pc = "mark_complete" /\ ProcessManipulations /\ faults' = 0
      /\ snapshot.taken /\ snapshot.inv = invocations - 1)
     => [snapshot' EXCEPT !.inv = snapshot.inv] = snapshot]_vars

\* The redactions whose application is in a persisted PDF: the source's
\* processing-stage object or a derived document's.
PersistedRedactions ==
  UNION {UNION {s3[k][i].red : i \in 1..Len(s3[k])} :
           k \in {x \in DOMAIN s3 :
                    x[1] = "Processing" /\ x[2] \in {SourceId} \cup DerivedIds}}

\* C5 (as claimed): whenever an invocation has ended, also after a failure
\* or a deadline abort, a redaction row is Applied only if a PDF with that
\* redaction applied has been persisted.
C5_AppliedOnlyIfPersisted ==
  pc = "done" =>
    \A k \in DOMAIN redactions :
      redactions[k].Applied => k \in PersistedRedactions

\* C6 (as claimed): when the deletions cover every page the stage leaves the
\* bytes unchanged, tombstones the source, reports documentDeleted with
\* finalPageCount 0, and the invocation never puts to the source's
\* processing-stage key.
C6_DeleteAllWritesNothing ==
  (faults = 0 /\ result.documentDeleted) =>
    /\ \A i \in 1..Len(stageLog) :
         stageLog[i].stage = "deletions" => stageLog[i].out = stageLog[i].inp
    /\ img.Deleted
    /\ result.finalPageCount = 0
    /\ PutsTo(ProcessingKey(SourceId)) = {}

\* C7 (as claimed): once the source row is Obsolete or tombstoned no step
\* changes its status code or inserts a document derived from it.
C7_TerminalStatesStay ==
  [][(faults' = 0
      /\ (img.ImageStatusTypeID = status_mapping.Obsolete \/ img.Deleted))
     => (img'.ImageStatusTypeID = img.ImageStatusTypeID /\ derived' = derived)]_vars

\* C8 (as claimed): an invocation that finds the document InWorkman refuses
\* to start: it runs no stage, writes no object and does not return success.
C8_RefusesWhenInWorkman ==
  (faults = 0 /\ startStatus = status_mapping.InWorkman) =>
    /\ stageLog = <<>>
    /\ puts = <<>>
    /\ ~response.success

\* C9: with a redaction, rotation or deletion pending, the first put of the
\* invocation is the fetched bytes to the RedactOriginal key, issued before
\* any stage has run; with only page breaks pending that key is never put.
C9_PendingFileEdit ==
  \/ manipulations.redactions # <<>>
  \/ manipulations.rotations # <<>>
  \/ manipulations.deletions # <<>>
FailedWithImageId ==
  pc = "done" /\ image_id # 0 /\ response.statusCode = 500
SameStores(a, b) == [a EXCEPT !.inv = b.inv] = b

C12_NoSuccessAfterFailedWrite ==
  Succeeded => \A i \in 1..Len(puts) : puts[i].ok

InvalidPayload ==
  image_id = 0 \/ operation \notin {"process_manipulations", "health_check"}

\* C13 (as claimed): an invocation whose payload lacks operation or imageId
\* or names an unsupported operation returns an error and leaves every row
\* and every object as it was before the invocation.
C13_InvalidPayloadChangesNothing ==
  (faults = 0 /\ pc = "done" /\ InvalidPayload) =>
    /\ ~response.success
    /\ SameStores(Stores(img), startStores)

\* C14 (as claimed): no stage starts and no object-store put is issued in a
\* step taken when less than the safety margin of the budget remains.
C14_NoWorkWhenBudgetShort ==
  [][(pc \notin {"idle", "done"} /\ faults' = 0
      /\ timeout_approaching(elapsed, timeout_seconds))
     => (stageLog' = stageLog /\ puts' = puts)]_vars

DeadlineAbort == pc = "done" /\ exc.type = "TimeoutError"

C16_NoOpChangesNothing ==
  (faults = 0 /\ Succeeded /\ ProcessManipulations /\ TotalManipulations = 0) =>
    /\ result.operationsApplied = <<>>
    /\ puts = <<>>
    /\ img = startStores.img

\* C17 (as claimed): in every state every document row that is not
\* tombstoned, derived rows included, has its processing-stage object.
C17_RowsHaveTheirObject ==
  faults = 0 =>
    /\ ~img.Deleted => ProcessingKey(SourceId) \in DOMAIN s3
    /\ \A i \in 1..Len(derived) :
         ~derived[i].Deleted => <<"Processing", derived[i].ID>> \in DOMAIN s3

IsPartition(ranges, n) ==
  /\ ranges # <<>>
  /\ ranges[1][1] = 0
  /\ ranges[Len(ranges)][2] = n
  /\ \A i \in 1..Len(ranges) : ranges[i][1] < ranges[i][2]
  /\ \A i \in 1..(Len(ranges) - 1) : ranges[i + 1][1] = ranges[i][2]

\* C18 (as claimed): the ranges full_split computes from the page breaks it
\* is passed partition [0, n), n the page count of the PDF it is passed.
C18_RangesPartition ==
  (faults = 0 /\ pc \in {"split_create", "split_upload", "split_log"}) =>
    IsPartition(split_ranges, Len(modified_pdf))

RECURSIVE SumPageCount(_)
SumPageCount(rows) ==
  IF rows = <<>> THEN 0 ELSE Head(rows).PageCount + SumPageCount(Tail(rows))

\* C19 (as claimed): with n the fetched page count and D the distinct valid
\* deletion indices, a successful run without split stores a PDF of n - |D|
\* pages, persists PageCount n - |D| and reports finalPageCount n - |D|; a
\* run with split inserts derived documents whose page counts sum to it.
C19_PageCountConserved ==
  (faults = 0 /\ Succeeded /\ ProcessManipulations /\ TotalManipulations > 0) =>
    LET n == Len(pdf_bytes)
        D == PagesToDelete(manipulations.deletions, n)
        kept == n - Cardinality(D)
    IN  IF result.splitImages = <<>>
        THEN /\ Len(s3[ProcessingKey(SourceId)]) = kept
             /\ img.PageCount = kept
             /\ result.finalPageCount = kept
        ELSE SumPageCount(SelectSeq(derived,
               LAMBDA d : d.ID \in Range(result.splitImages))) = kept

\* C20 (as claimed): after an invocation that ran the split stage every
\* ResultImageID set on a break is the id of a document row, and every
\* derived row has exactly one split log row relating it to the source.
C20_ReferentialIntegrity ==
  (pc = "done" /\ \E i \in 1..Len(stageLog) : stageLog[i].stage = "splitting") =>
    /\ \A k \in DOMAIN bookmarks :
         bookmarks[k].ResultImageID # 0
           => bookmarks[k].ResultImageID \in {SourceId} \cup DerivedIds
    /\ \A i \in 1..Len(derived) :
         Cardinality({j \in 1..Len(splitLog) :
                        /\ splitLog[j].SplitImageID = derived[i].ID
                        /\ splitLog[j].OriginalImageID = SourceId}) = 1

\* ------------------------------------------------------- the split stage
FullSplitSucceeded ==
  Succeeded /\ ProcessManipulations /\ result.splitStrategy = "full_split"
DerivedFor(b) ==
  {i \in 1..Len(derived) :
     /\ derived[i].ID \in Range(result.splitImages)
     /\ derived[i].SplitType = "page_break"
     /\ derived[i].pageRange[1] = b.PageIndex}

\* C21 (as claimed): after a successful full_split every page break that
\* was loaded has a ResultImageID that is the id of the derived document
\* whose range starts at the break's page index, no two breaks share a
\* ResultImageID, and a ResultImageID is set only on a break for which a
\* document was produced.
C21_BreaksPointAtTheirDocument ==
  FullSplitSucceeded =>
    /\ \A b \in Range(manipulations.pageBreaks) :
         /\ bookmarks[b.ID].ResultImageID # 0
         /\ \E i \in DerivedFor(b) :
              derived[i].ID = bookmarks[b.ID].ResultImageID
    /\ \A a, b \in Range(manipulations.pageBreaks) :
         (a.ID # b.ID /\ bookmarks[a.ID].ResultImageID # 0)
           => bookmarks[a.ID].ResultImageID # bookmarks[b.ID].ResultImageID
    /\ \A k \in DOMAIN bookmarks :
         bookmarks[k].ResultImageID \notin {0, SourceId}
           => bookmarks[k].ResultImageID \in DerivedIds

SingleBreakAtZero ==
  /\ Len(manipulations.pageBreaks) = 1
  /\ manipulations.pageBreaks[1].PageIndex = 0

BreaksInRange(brks, n) ==
  /\ \A i \in 1..Len(brks) : brks[i].PageIndex \in 0..(n - 1)
  /\ \A i, j \in 1..Len(brks) : i < j => brks[i].PageIndex < brks[j].PageIndex
NewDocuments ==
  SelectSeq(derived, LAMBDA d : d.ID \in Range(result.splitImages))
FullSplitDone ==
  /\ result.splitStrategy = "full_split"
  /\ pc \in {"split_log", "mark_obsolete", "mark_complete"} \/ Succeeded

C23_WitnessTwoBreaks ==
  /\ Succeeded /\ result.splitStrategy = "full_split"
  /\ Len(modified_pdf) = 2
  /\ Len(manipulations.pageBreaks) = 2
  /\ Len(NewDocuments) = 2
  /\ NewDocuments[1].Comments = "c1"
  /\ NewDocuments[2].Comments = DefaultComments

\* ------------------------------------------------------ the stages' rows
InRange(k, doc) == k \in 0..(Len(doc) - 1)
PagesWith(doc, id) == {i \in 1..Len(doc) : id \in doc[i].red}

\* C24 (as claimed): a row of any of the four kinds whose page index is
\* outside the PDF its stage is passed changes no page, produces no
\* document, is recorded as skipped in the stage's result where the result
\* has such a list, and the invocation succeeds.
C24_InvalidRowsSkipped ==
  (faults = 0 /\ pc = "done" /\ ProcessManipulations /\ stageLog # <<>>) =>
    /\ response.success
    /\ \A i \in 1..Len(stageLog) :
         LET e == stageLog[i]
         IN  /\ e.stage = "redactions" =>
                  \A r \in Range(manipulations.redactions) :
                    ~InRange(r.PageNumber, e.inp) =>
                      /\ PagesWith(e.out, r.ID) = {}
                      /\ r.ID \notin result.redactionResult.appliedRedactions
             /\ e.stage = "rotations" =>
                  \A r \in Range(manipulations.rotations) :
                    ~InRange(r.PageIndex, e.inp) =>
                      /\ e.out = e.inp
                      /\ \E j \in 1..Len(result.rotationResult.skippedRotations) :
                           result.rotationResult.skippedRotations[j].rotation = r
             /\ e.stage = "deletions" =>
                  \A d \in Range(manipulations.deletions) :
                    ~InRange(d.PageIndex, e.inp) =>
                      \E j \in 1..Len(result.deletionResult.skippedDeletions) :
                        result.deletionResult.skippedDeletions[j].deletion = d
             /\ e.stage = "splitting" =>
                  \A b \in Range(manipulations.pageBreaks) :
                    ~InRange(b.PageIndex, e.inp) =>
                      /\ DerivedFor(b) = {}
                      /\ bookmarks[b.ID].ResultImageID = 0

\* C25 (as claimed): when the redaction stage has returned, every page it
\* applied a redaction to is rasterized and is in rasterizedPages.
C25_RedactedPagesRasterized ==
  \A i \in 1..Len(stageLog) :
    stageLog[i].stage = "redactions" =>
      \A p \in 1..Len(stageLog[i].out) :
        stageLog[i].out[p].red # stageLog[i].inp[p].red =>
          /\ stageLog[i].out[p].raster
          /\ (p - 1) \in result.redactionResult.rasterizedPages

RedactionStageRan ==
  \E i \in 1..Len(stageLog) : stageLog[i].stage = "redactions"

\* C26: the load hands over no redaction row that is Applied when it reads
\* the table, the redaction stage is passed only rows that were not Applied
\* when the invocation began, and no step, the error recovery included,
\* takes a row from Applied to not Applied.
C26_AppliedStaysApplied ==
  [][/\ \A k \in DOMAIN redactions :
          redactions[k].Applied => redactions'[k].Applied
     /\ (pc = "load" /\ pc' \notin {"load", "error"}) =>
          \A r \in Range(manipulations'.redactions) : ~redactions[r.ID].Applied
     /\ (pc = "redact" /\ stageLog' # stageLog) =>
          \A r \in Range(manipulations.redactions) :
            ~startStores.redactions[r.ID].Applied]_vars

\* C26 witness: an invocation that began with redaction 1 Applied and
\* redaction 2 pending has run the stage on redaction 2 alone and ended;
\* redaction 1 is still Applied.
C26_Witness ==
  /\ pc = "done"
  /\ RedactionStageRan
  /\ DOMAIN redactions = {1, 2}
  /\ startStores.redactions[1].Applied /\ ~startStores.redactions[2].Applied
  /\ Len(manipulations.redactions) = 1 /\ manipulations.redactions[1].ID = 2
  /\ redactions[1].Applied

\* C27: when the redaction stage completes, the applied redactions whose
\* Applied flag is not persisted are at most the marks the metadata store
\* rejected in that run, so with no mark rejected every applied redaction
\* is Applied; a rejected mark does not end the stage, which goes on to
\* the timeout check with the other marks written.
C27_MarksWrittenIndividually ==
  [][(pc = "redact" /\ stageLog' # stageLog) =>
       LET applied == result'.redactionResult.appliedRedactions
           unmarked == {k \in applied : ~redactions'[k].Applied}
       IN  /\ pc' = "check_timeout"
           /\ Cardinality(unmarked) <= faults' - faults
           /\ faults' = faults => unmarked = {}]_vars

\* C27 witness: two redactions applied, the first mark rejected, the
\* second written after it, the stage completed.
C27_Witness ==
  /\ pc = "check_timeout"
  /\ result.redactionResult.appliedRedactions = {1, 2}
  /\ ~redactions[1].Applied /\ redactions[2].Applied

\* ------------------------------------------ deletion and rotation stages
StageEntries(name) == {i \in 1..Len(stageLog) : stageLog[i].stage = name}
ValidIndices(rows, doc) ==
  {rows[i].PageIndex : i \in 1..Len(rows)} \cap (0..(Len(doc) - 1))
\* doc without the pages whose zero-based index is in D, order kept
RECURSIVE Without(_, _, _)
Without(doc, D, i) ==
  IF i > Len(doc) THEN <<>>
  ELSE (IF (i - 1) \in D THEN <<>> ELSE <<doc[i]>>) \o Without(doc, D, i + 1)

\* C29: when the distinct valid indices D of the deletion rows do not cover
\* the input, the output of the deletion stage is the input without the
\* pages at D, the others in their order, whatever the order of the rows
\* and however often an index occurs.
C29_DeletesExactlyTheValidPages ==
  \A i \in StageEntries("deletions") :
    LET D == ValidIndices(manipulations.deletions, stageLog[i].inp)
    IN  Cardinality(D) < Len(stageLog[i].inp) =>
          stageLog[i].out = Without(stageLog[i].inp, D, 1)

\* C29 witness: three pages, rows for pages 0, 2, 0 in that order: a
\* duplicate, ascending then descending; the page in the middle remains.
C29_Witness ==
  /\ pc = "split"
  /\ Len(pdf_bytes) = 3
  /\ Len(manipulations.deletions) = 3
  /\ manipulations.deletions[1].PageIndex = 0
  /\ manipulations.deletions[2].PageIndex = 2
  /\ manipulations.deletions[3].PageIndex = 0
  /\ Len(modified_pdf) = 1 /\ modified_pdf[1].orig = 1

ValidRowsFor(rows, doc, p) ==
  {i \in 1..Len(rows) :
     /\ rows[i].PageIndex = p
     /\ rows[i].PageIndex \in 0..(Len(doc) - 1)
     /\ rows[i].Rotate \in {0, 90, 180, 270}}

\* C30: after the rotation stage a page with a valid rotation row has the
\* angle of the last such row of the input as its rotation, whatever its
\* rotation was; every other page is as it was; the page count is
\* unchanged; and every input row is in the result, under pagesRotated
\* with its page and angle or under skippedRotations with a reason.
C30_LastValidRotationWins ==
  \A i \in StageEntries("rotations") :
    LET inp == stageLog[i].inp
        out == stageLog[i].out
        rows == manipulations.rotations
        res == result.rotationResult
    IN  /\ Len(out) = Len(inp)
        /\ \A p \in 1..Len(inp) :
             LET valid == ValidRowsFor(rows, inp, p - 1)
             IN  IF valid = {} THEN out[p] = inp[p]
                 ELSE out[p] = [inp[p] EXCEPT !.rot = rows[Max(valid)].Rotate]
        /\ Len(res.pagesRotated) + Len(res.skippedRotations) = Len(rows)
        /\ \A k \in 1..Len(rows) :
             \/ \E j \in 1..Len(res.pagesRotated) :
                  /\ res.pagesRotated[j].pageIndex = rows[k].PageIndex
                  /\ res.pagesRotated[j].rotation = rows[k].Rotate
             \/ \E j \in 1..Len(res.skippedRotations) :
                  /\ res.skippedRotations[j].rotation = rows[k]
                  /\ res.skippedRotations[j].reason # ""

\* C30 witness: a page at 180 degrees with the rows 90 then 0 for it is
\* reset to 0; both rows are under pagesRotated.
C30_Witness ==
  /\ pc = "delete"
  /\ pdf_bytes[1].rot = 180
  /\ Len(manipulations.rotations) = 2
  /\ manipulations.rotations[1] = [ID |-> 1, PageIndex |-> 0, Rotate |-> 90]
  /\ manipulations.rotations[2] = [ID |-> 2, PageIndex |-> 0, Rotate |-> 0]
  /\ modified_pdf[1].rot = 0
  /\ Len(result.rotationResult.pagesRotated) = 2

\* ------------------------------------------------- the progress callback
\* The progress log as it is when every POST is answered with 200.
Delivered(log) == [i \in 1..Len(log) |-> [log[i] EXCEPT !.outcome = "ok"]]
FailedDelivery ==
  /\ Len(progress') = Len(progress) + 1
  /\ progress'[Len(progress')].outcome # "ok"

C28_WitnessError ==
  /\ FailedWithImageId
  /\ Len(progress) = 2
  /\ progress[2].status = "error" /\ progress[2].outcome = "non200"
  /\ img.ImageStatusTypeID = status_mapping.NeedsImageManipulation

\* ------------------------------------------------------- the fetch step
\* C32 (as claimed): the fetch of an invocation whose processing-stage
\* object exists and is delivered by the object store returns that object
\* and the invocation goes on to the backup and the stages; it does not
\* fail at the fetch.
C32_FetchSucceeds ==
  [][(pc = "download" /\ pc' # "download" /\ faults' = faults
      /\ ProcessingKey(SourceId) \in DOMAIN s3
      /\ s3[ProcessingKey(SourceId)] # <<>>)
     => (pc' = "backup" /\ pdf_bytes' = s3[ProcessingKey(SourceId)])]_vars

\* ------------------------------------------- page count and stored pages
\* C34 (as claimed): when an invocation has ended, with success or with an
\* error, the PageCount of a source row that is not tombstoned is the
\* number of pages of the PDF at its processing-stage key.
C34_PageCountIsStoredPages ==
  (faults = 0 /\ pc = "done" /\ ~img.Deleted
   /\ ProcessingKey(SourceId) \in DOMAIN s3) =>
    img.PageCount = Len(s3[ProcessingKey(SourceId)])

\* ------------------------------------------------- skipped redactions
SkippedRedactions ==
  {manipulations.redactions[i].ID : i \in 1..Len(manipulations.redactions)}
    \ result.redactionResult.appliedRedactions

\* C35 (as claimed): once the redaction stage has run, a redaction it was
\* handed and did not apply, because its page is outside the document or
\* because applying it raised, is not Applied.
C35_SkippedStayPending ==
  (faults = 0 /\ RedactionStageRan) =>
    \A k \in SkippedRedactions : ~redactions[k].Applied

\* ------------------------------------------------------- the health check
\* C36 (as claimed): when a health_check invocation has ended, every row,
\* the status code of the document included, and every object are as they
\* were when it began.
C36_HealthCheckReadOnly ==
  (faults = 0 /\ pc = "done" /\ image_id # 0 /\ operation = "health_check") =>
    SameStores(Stores(img), startStores)

\* ------------------------------------------------------------ termination
Running == pc \notin {"idle", "done"}
LeftInWorkman == {status_mapping.NeedsProcessing, status_mapping.Obsolete,
                  status_mapping.NeedsImageManipulation}

\* C33: every invocation returns, and the step with which an invocation
\* that went through the InWorkman write returns leaves the document in
\* NeedsProcessing, Obsolete or NeedsImageManipulation, or tombstoned,
\* provided the metadata store accepts the status write of that step.
C33_EndsOutOfInWorkman ==
  /\ Running ~> (pc = "done")
  /\ [][(Running /\ pc' = "done" /\ image_id # 0 /\ operation # ""
         /\ faults' = faults)
        => (img'.ImageStatusTypeID \in LeftInWorkman \/ img'.Deleted)]_vars

\* C33 witnesses: a returned invocation that found the document InWorkman
\* and ran a stage, and one that failed after the InWorkman write.
C33_Witness ==
  /\ Succeeded /\ ProcessManipulations /\ faults = 0
  /\ startStatus = status_mapping.InWorkman
  /\ stageLog # <<>>
  /\ img.ImageStatusTypeID = status_mapping.NeedsProcessing
C33_WitnessFailed ==
  /\ FailedWithImageId /\ faults = 0 /\ exc.type = "TypeError"
  /\ img.ImageStatusTypeID = status_mapping.NeedsImageManipulation

\* ------------------------------------------------ the two range functions
\* A list of ranges as <<first page, page after the last, break id>>, the
\* break id 0 for the front section.
ProcessorAssignment(ranges, page_breaks) ==
  [i \in 1..Len(ranges) |->
     LET b == find_break_for_range(page_breaks, ranges[i][1])
     IN  <<ranges[i][1], ranges[i][2],
           IF b = {} THEN 0 ELSE (CHOOSE x \in b : TRUE).ID>>]
EntryPointAssignment(ranges) ==
  [i \in 1..Len(ranges) |->
     <<ranges[i].startPage, ranges[i].endPage + 1, ranges[i].bookmarkId>>]
BreakPayload == payload_bookmarks(OrderBy(bookmarks, DOMAIN bookmarks, "ID"))
DistinctBreaksInDocument ==
  /\ bookmarks # <<>>
  /\ \A a, b \in DOMAIN bookmarks :
       a # b => bookmarks[a].PageIndex # bookmarks[b].PageIndex
  /\ \A a \in DOMAIN bookmarks : bookmarks[a].PageIndex < Len(pdf_bytes)
  /\ ~(Len(bookmarks) = 1 /\ bookmarks[1].PageIndex = 0)

C37_WitnessBreakAtZero ==
  /\ pc = "processor_ranges" /\ DistinctBreaksInDocument
  /\ Len(bookmarks) = 2 /\ bookmarks[1].PageIndex = 0
  /\ Len(split_ranges) = 2

\* --------------------------------------------------------- API requests
Retryable == {"500", "502", "503", "504", "Timeout", "RequestException"}

C39_WitnessNoRetry ==
  /\ api.retry_attempts = 2 /\ api.log = <<"RequestException", "404">>
  /\ api.state = "raised" /\ api.updated /\ ~api.status_update

\* ------------------------------------------------------------------- C31
\* The status a step of the handlers names when it writes the source's
\* ImageStatusTypeID.
StatusNamed ==
  CASE pc = "set_inworkman" -> "InWorkman"
    [] pc = "mark_obsolete" -> "Obsolete"
    [] pc = "sd_records" -> "Obsolete"
    [] pc = "mark_complete" -> "NeedsProcessing"
    [] pc = "error" -> "NeedsImageManipulation"
    [] OTHER -> ""

MarkedObsolete ==
  \/ pc = "mark_obsolete" /\ pc' = "mark_complete" /\ faults' = faults
  \/ pc = "sd_records" /\ pc' = "sd_complete"

\* C31: every step that changes the persisted status of the source writes
\* the code listed for the status the step names (Sync 1, NeedsProcessing
\* 3, NeedsImageManipulation 7, PendingWorkman 8, InWorkman 9, Obsolete
\* 15), and a step of either split path that marks the source Obsolete
\* leaves code 15 on its row.
C31_StatusWritesListedCode ==
  [][(img'.ImageStatusTypeID # img.ImageStatusTypeID \/ MarkedObsolete)
     => /\ StatusNamed \in DOMAIN status_mapping
        /\ img'.ImageStatusTypeID = status_mapping[StatusNamed]]_vars

\* ------------------------------------------------------------------- C38
Terminal(u) ==
  \/ u.status = "completed" /\ u.progress = 100
  \/ u.status = "error"
TerminalUpdates == {i \in 1..Len(progress) : Terminal(progress[i])}

\* C38: an invocation that has returned, for a session it knows, has
\* emitted exactly one terminal update (completed with progress 100, or
\* error), that update is the last one of the session, and when it is a
\* completed update the progress values before it never decrease.
C38_OneTerminalUpdateLast ==
  (pc = "done" /\ invocations > 0 /\ session_id # "") =>
    /\ Cardinality(TerminalUpdates) = 1
    /\ Len(progress) \in TerminalUpdates
    /\ progress[Len(progress)].status = "completed" =>
         \A i, j \in 1..(Len(progress) - 1) :
           i <= j => progress[i].progress <= progress[j].progress

====
